---- MODULE Spec2Model ----
(***************************************************************************)
(* The cache-export normaliser and serialiser of buildkit's remote cache   *)
(* (cache/remotecache/v1/utils.go): normalizeItem, removeLoops/checkLoops, *)
(* marshalRemote, marshalItem and sortConfig.                              *)
(*                                                                         *)
(* Items are pointers to item, modelled as the numbers 1..n; Nil is the    *)
(* nil pointer.  Digests are strings in the code and are only compared     *)
(* (==, <); they are modelled as integers with the same order.  A Go map   *)
(* is iterated in an unspecified order: every loop over a map is modelled  *)
(* by all the orders, so each function of the code is an operator that     *)
(* returns the SET of its possible outcomes.                               *)
(***************************************************************************)
EXTENDS Integers, Sequences, FiniteSets, TLC

Nil == 0

EmptyFn == [x \in {} |-> 0]

\* m[k] = v on a Go map
Put(f, k, v) == (k :> v) @@ f

Range(f) == {f[x] : x \in DOMAIN f}

(***************************************************************************)
(* utils.go:230  digest.FromBytes(fmt.Appendf(nil, "%d", state.next)):     *)
(* the sha256 of the decimal counter.  Only the order of these digests is  *)
(* observable (line 223), so each is modelled by its first byte:           *)
(* sha256("1") = 6b86.., sha256("2") = d473.., sha256("3") = 4e07..,       *)
(* sha256("4") = 4b22.., sha256("5") = ef2d.., sha256("6") = e7f6..,       *)
(* sha256("7") = 7902.., sha256("8") = 2c62.., sha256("9") = 1958..,       *)
(* sha256("10") = 4a44..                                                   *)
(***************************************************************************)
ShaFirstByte == <<107, 212, 78, 75, 239, 231, 121, 44, 25, 74>>

FreshDigest(n) == 1000 + ShaFirstByte[n]

\* utils.go:116  type nlink
NLink(dgst, input, selector) == [dgst |-> dgst, input |-> input, selector |-> selector]

\* a link of an item: chains.go type link {src *item; selector string}
Link(src, selector) == [src |-> src, selector |-> selector]

\* state.links[it2][nl], a lookup in nested Go maps (a missing key reads as empty)
LinksAt(w, it2, nl) ==
    IF it2 \in DOMAIN w.links /\ nl \in DOMAIN w.links[it2]
    THEN w.links[it2][nl]
    ELSE {}

\* normalizeItem keeping the largest digest of matches
MaxDigest(matches) == CHOOSE m \in matches : \A x \in matches : m >= x

\* utils.go:221-226  the smallest digest of matches
MinDigest(matches) == CHOOSE m \in matches : \A x \in matches : m <= x

\* normalizeItem never finding a matching record: matches stays empty
MergeMatchesNone(matches, i, lk) == {}

\* utils.go:203-213  matches after one link of input i (0-based) has been looked at
MergeMatches(matches, i, lk) ==
    IF i = 0 THEN matches \cup lk ELSE matches \cap lk

\* normalizeItem creating a canonical item without counting it in state.next
freshKeyUncounted(w, it, n) ==
    [w EXCEPT !.byKey = Put(@, FreshDigest(w.next + 1), it),
              !.items[it].links = [i \in 1..n |-> {}]]

\* utils.go:229-235  a new canonical item: state.next++, the item is put in state.byKey
\* under the digest of the counter and its n inputs are emptied
freshKey(w, it, n) ==
    [w EXCEPT !.next = @ + 1,
              !.byKey = Put(@, FreshDigest(w.next + 1), it),
              !.items[it].links = [i \in 1..n |-> {}]]

(***************************************************************************)
(* utils.go:217-260  the second half of normalizeItem: choose or create    *)
(* the canonical item it2 of it, record it in state.added, and copy the    *)
(* links lks of it onto it2 and into state.links.  Every l.src was         *)
(* normalized by the first loop, so normalizeItem(l.src) at line 243       *)
(* returns state.added[l.src].                                             *)
(***************************************************************************)
Register(it, lks, acc) ==
    IF acc.err # "none"
    THEN [w |-> acc.w, ret |-> Nil, err |-> acc.err, matches |-> {}, seen |-> acc.seen]
    ELSE
    LET w     == acc.w
        dg    == w.items[it].dgst
        fresh == acc.matches = {}
        id    == IF fresh THEN FreshDigest(w.next + 1) ELSE MinDigest(acc.matches)
        w1    == IF fresh THEN freshKey(w, it, Len(lks)) ELSE w
        it2   == w1.byKey[id]
        added2 == Put(w1.added, it, it2)
        old   == w1.items[it2].links
        regs  == {[s |-> added2[l.src], nl |-> NLink(dg, i - 1, l.selector)] :
                     <<i, l>> \in {<<j, k>> \in (1..Len(lks)) \X (UNION Range(lks)) : k \in lks[j]}}
        lnk   == w1.links
        srcs  == DOMAIN lnk \cup {r.s : r \in regs}
        links2 == [s \in srcs |->
                    LET o   == IF s \in DOMAIN lnk THEN lnk[s] ELSE EmptyFn
                        nls == DOMAIN o \cup {r.nl : r \in {q \in regs : q.s = s}}
                    IN  [n \in nls |->
                           (IF n \in DOMAIN o THEN o[n] ELSE {})
                           \cup (IF [s |-> s, nl |-> n] \in regs THEN {id} ELSE {})]]
    IN  IF Len(lks) > Len(old)
        THEN \* it2.links[i] at line 247 with i out of range
             [w |-> [w1 EXCEPT !.added = added2], ret |-> Nil, err |-> "panic",
              matches |-> acc.matches, seen |-> acc.seen]
        ELSE [w |-> [w1 EXCEPT !.added = added2,
                               !.links = links2,
                               !.items[it2].links =
                                   [i \in 1..Len(old) |->
                                      old[i] \cup
                                      (IF i <= Len(lks)
                                       THEN {Link(added2[l.src], l.selector) : l \in lks[i]}
                                       ELSE {})]],
              ret |-> it2, err |-> "none", matches |-> acc.matches, seen |-> acc.seen]

(***************************************************************************)
(* utils.go:173-261  normalizeItem(it, state).  w is the heap the call     *)
(* works on: the items and the normalizeState.  stack is the set of items  *)
(* whose call is in progress: a call on one of them finds it not yet in    *)
(* state.added and runs the same loop again, so the recursion never        *)
(* returns (Go ends the process with a stack overflow).  Besides the heap,  *)
(* the value returned and the error, an outcome records the matches the    *)
(* call ended its first loop with and, for every link it looked at (seen), *)
(* the input, the link and the ids found in state.links for it.            *)
(***************************************************************************)
RECURSIVE normalizeItem(_, _, _)
RECURSIVE MatchLinks(_, _, _, _, _)
RECURSIVE MatchSlots(_, _, _, _, _)

\* utils.go:196-214  the links of input i (1-based here), in every order of the map
MatchLinks(it, i, m, acc, stack) ==
    IF acc.err # "none" \/ m = {} THEN {acc}
    ELSE UNION { UNION { MatchLinks(it, i, m \ {l}, a2, stack) :
                   a2 \in { IF o.err # "none"
                            THEN [w |-> o.w, matches |-> acc.matches, err |-> o.err,
                                  seen |-> acc.seen]
                            ELSE LET ids == LinksAt(o.w, o.ret,
                                              NLink(acc.w.items[it].dgst, i - 1, l.selector))
                                 IN  [w |-> o.w,
                                      matches |-> MergeMatches(acc.matches, i - 1, ids),
                                      err |-> "none",
                                      seen |-> acc.seen \cup
                                               {[input |-> i - 1, link |-> l, ids |-> ids]}] :
                            o \in normalizeItem(l.src, acc.w, stack) } } :
                 l \in m }

\* utils.go:192-215  the inputs of it, in order
MatchSlots(it, lks, i, acc, stack) ==
    IF acc.err # "none" \/ i > Len(lks) THEN {acc}
    ELSE IF lks[i] = {} THEN {[acc EXCEPT !.err = "invalid incomplete links"]}
    ELSE UNION { MatchSlots(it, lks, i + 1, a2, stack) :
                 a2 \in MatchLinks(it, i, lks[i], acc, stack) }

normalizeItem(it, w, stack) ==
    IF it \in DOMAIN w.added
    THEN {[w |-> w, ret |-> w.added[it], err |-> "none", matches |-> {}, seen |-> {}]}
    ELSE IF it \in stack
    THEN {[w |-> w, ret |-> Nil, err |-> "overflow", matches |-> {}, seen |-> {}]}
    ELSE IF Len(w.items[it].links) = 0
    THEN LET id == w.items[it].dgst
         IN  IF id \in DOMAIN w.byKey
             THEN {[w |-> [w EXCEPT !.added = Put(@, it, w.byKey[id])],
                    ret |-> w.byKey[id], err |-> "none", matches |-> {}, seen |-> {}]}
             ELSE {[w |-> [w EXCEPT !.byKey = Put(@, id, it), !.added = Put(@, it, it)],
                    ret |-> Nil, err |-> "none", matches |-> {}, seen |-> {}]}
    ELSE LET lks == w.items[it].links
         IN  { Register(it, lks, a) :
               a \in MatchSlots(it, lks, 1,
                                [w |-> w, matches |-> {}, err |-> "none", seen |-> {}],
                                stack \cup {it}) }

(***************************************************************************)
(* chains.go  (c *item) removeLink(src): the body is not part of the       *)
(* sources at hand; section 4.4 of the specification: "when a link would   *)
(* revisit an ancestor, drop that specific link (not the whole item)".     *)
(* The links of c whose source is src are dropped; found tells whether     *)
(* there was one.                                                          *)
(***************************************************************************)
removeLink(c, src) ==
    [found |-> \E i \in 1..Len(c.links) : \E l \in c.links[i] : l.src = src,
     links |-> [i \in 1..Len(c.links) |-> {l \in c.links[i] : l.src # src}]]

\* checkLoops forgetting it2.removeLink(it): only the entry of state.links is deleted
DropLoopKeepLink(d, it, l, id, c) ==
    IF id \notin DOMAIN c.w.byKey THEN c
    ELSE [c EXCEPT !.w.links[it][l] = @ \ {id}]

\* checkLoops logging the warning for every looping key, removed or not
DropLoopWarnAll(d, it, l, id, c) ==
    IF id \notin DOMAIN c.w.byKey THEN c
    ELSE LET it2 == c.w.byKey[id]
             rl  == removeLink(c.w.items[it2], it)
         IN  [c EXCEPT !.w.items[it2].links = rl.links,
                       !.tried = @ + 1,
                       !.warned = @ + 1,
                       !.dropped = IF rl.found THEN @ \cup {[from |-> it2, to |-> it]} ELSE @,
                       !.w.links[it][l] = @ \ {id}]

\* checkLoops removing the looping item itself from state.byKey, not only its link
DropLoopItem(d, it, l, id, c) ==
    IF id \notin DOMAIN c.w.byKey THEN c
    ELSE [c EXCEPT !.w.byKey = [k \in DOMAIN @ \ {id} |-> @[k]],
                   !.tried = @ + 1,
                   !.w.links[it][l] = @ \ {id}]

\* utils.go:157-168  one id of the inner loop of checkLoops, when id is visited
DropLoop(d, it, l, id, c) ==
    IF id \notin DOMAIN c.w.byKey THEN c
    ELSE LET it2 == c.w.byKey[id]
             rl  == removeLink(c.w.items[it2], it)
         IN  [c EXCEPT !.w.items[it2].links = rl.links,
                       !.tried = @ + 1,
                       !.warned = IF rl.found THEN @ ELSE @ + 1,
                       !.dropped = IF rl.found THEN @ \cup {[from |-> it2, to |-> it]} ELSE @,
                       !.w.links[it][l] = @ \ {id}]

(***************************************************************************)
(* utils.go:143-171  checkLoops(ctx, d, visited).  c holds the heap w, the *)
(* visited map, the number of calls of removeLink (tried), the number of   *)
(* warnings logged and the links removed (dropped: from an item, to its    *)
(* source).                                                                *)
(***************************************************************************)
RECURSIVE checkLoops(_, _)
RECURSIVE LoopIds(_, _, _, _, _)
RECURSIVE LoopNLinks(_, _, _, _)

\* utils.go:156-169  for id := range ids, in every order; an id deleted meanwhile is skipped
LoopIds(d, it, l, ids, c) ==
    IF ids = {} THEN {c}
    ELSE UNION { UNION { LoopIds(d, it, l, ids \ {id}, c2) :
                   c2 \in IF id \notin c.w.links[it][l] THEN {c}
                          ELSE IF id \in c.visited THEN {DropLoop(d, it, l, id, c)}
                          ELSE checkLoops(id, c) } :
                 id \in ids }

\* utils.go:155  for l, ids := range links, in every order
LoopNLinks(d, it, nls, c) ==
    IF nls = {} THEN {c}
    ELSE UNION { UNION { LoopNLinks(d, it, nls \ {l}, c2) :
                   c2 \in LoopIds(d, it, l, c.w.links[it][l], c) } :
                 l \in nls }

checkLoops(d, c) ==
    IF d \notin DOMAIN c.w.byKey THEN {c}
    ELSE LET it == c.w.byKey[d]
         IN  IF it \notin DOMAIN c.w.links THEN {c}
             ELSE LoopNLinks(d, it, DOMAIN c.w.links[it],
                             [c EXCEPT !.visited = @ \cup {d}])

\* utils.go:138-140  for _, d := range roots
RECURSIVE LoopRoots(_, _)
LoopRoots(roots, c) ==
    IF roots = {} THEN {c}
    ELSE UNION { UNION { LoopRoots(roots \ {d}, c2) : c2 \in checkLoops(d, c) } :
                 d \in roots }

\* utils.go:128-141  removeLoops: the roots are collected in the order of the byKey map
removeLoops(w) ==
    LoopRoots({d \in DOMAIN w.byKey : Len(w.items[w.byKey[d]].links) = 0},
              [w |-> w, visited |-> {}, tried |-> 0, warned |-> 0, dropped |-> {}])

(***************************************************************************)
(* utils.go:263-270  marshalState: layers and records are Go slices, kept  *)
(* as sequences; every index stored in them (ParentIndex, LayerIndex,      *)
(* LinkIndex, chainsByID, recordsByItem) is the 0-based index of the code. *)
(***************************************************************************)
NewMarshalState ==
    [layers |-> <<>>, chainsByID |-> EmptyFn, descriptors |-> {},
     records |-> <<>>, recordsByItem |-> EmptyFn]

(***************************************************************************)
(* utils.go:272-318  marshalRemote(ctx, r, state).  r.descs is the chain   *)
(* of descriptor digests, r.bad the digests for which r.Provider.Info      *)
(* fails with an error other than NotImplemented (empty without Provider). *)
(* A chain id is desc.Digest.String() + parentID, a concatenation of       *)
(* digests of one fixed width: the sequence of the digests, last first.    *)
(***************************************************************************)
\* marshalRemote without the lookup of the chain id: a layer is appended on every call
addLayerAlways(ms1, id, desc, pid) ==
    LET cb == Put(ms1.chainsByID, id, Len(ms1.layers))
    IN  [ms1 EXCEPT
           !.chainsByID = cb,
           !.layers = Append(@, [Blob |-> desc,
                                 ParentIndex |-> IF pid # <<>> THEN cb[pid] ELSE -1])]

\* utils.go:303-316  the layer of chain id is appended unless chainsByID has the id
addLayer(ms1, id, desc, pid) ==
    LET cb == Put(ms1.chainsByID, id, Len(ms1.layers))
    IN  IF id \in DOMAIN ms1.chainsByID THEN ms1
        ELSE [ms1 EXCEPT
                !.chainsByID = cb,
                !.layers = Append(@, [Blob |-> desc,
                                      ParentIndex |-> IF pid # <<>> THEN cb[pid] ELSE -1])]

\* marshalRemote never asking the Provider
infoIgnored(r) == FALSE

\* utils.go:277-285  r.Provider.Info fails for a descriptor, not with NotImplemented
infoFails(r) == \E i \in 1..Len(r.descs) : r.descs[i] \in r.bad

RECURSIVE marshalRemote(_, _)
marshalRemote(r, ms) ==
    IF Len(r.descs) = 0 THEN [id |-> <<>>, ms |-> ms]
    ELSE IF infoFails(r) THEN [id |-> <<>>, ms |-> ms]
    ELSE LET n    == Len(r.descs)
             p    == IF n > 1
                     THEN marshalRemote([r EXCEPT !.descs = SubSeq(@, 1, n - 1)], ms)
                     ELSE [id |-> <<>>, ms |-> ms]
             desc == r.descs[n]
             ms1  == [p.ms EXCEPT !.descriptors = @ \cup {desc}]
             id   == <<desc>> \o p.id
         IN  [id |-> id, ms |-> addLayer(ms1, id, desc, p.id)]

(***************************************************************************)
(* utils.go:320-360  marshalItem(ctx, it, state).  items is the heap (read *)
(* only), c the marshalState and the error so far.  A call on an item      *)
(* whose call is in progress finds it not yet in recordsByItem and recurses*)
(* without end.                                                            *)
(***************************************************************************)
RECURSIVE marshalItem(_, _, _, _)
RECURSIVE MarshalLinks(_, _, _, _, _)
RECURSIVE MarshalSlots(_, _, _, _, _)

\* utils.go:331-343  the links of input i, in every order of the map
MarshalLinks(items, i, m, acc, stack) ==
    IF acc.err # "none" \/ m = {} THEN {acc}
    ELSE UNION { UNION { MarshalLinks(items, i, m \ {l}, a2, stack) :
                   a2 \in { IF c.err # "none"
                            THEN [acc EXCEPT !.ms = c.ms, !.err = c.err]
                            ELSE IF l.src \notin DOMAIN c.ms.recordsByItem
                            THEN [acc EXCEPT !.ms = c.ms, !.err = "invalid source record"]
                            ELSE [acc EXCEPT !.ms = c.ms,
                                             !.inputs[i] = Append(@,
                                                 [Selector |-> l.selector,
                                                  LinkIndex |-> c.ms.recordsByItem[l.src]])] :
                            c \in marshalItem(items, l.src, [ms |-> acc.ms, err |-> "none"],
                                              stack) } } :
                 l \in m }

\* utils.go:330  the inputs of it, in order
MarshalSlots(items, lks, i, acc, stack) ==
    IF acc.err # "none" \/ i > Len(lks) THEN {acc}
    ELSE UNION { MarshalSlots(items, lks, i + 1, a2, stack) :
                 a2 \in MarshalLinks(items, i, lks[i], acc, stack) }

\* marshalItem taking the index of the record after the append: len(state.records)
AppendRecordAfter(items, it, acc) ==
    IF acc.err # "none" THEN [ms |-> acc.ms, err |-> acc.err]
    ELSE LET r   == marshalRemote(items[it].result, acc.ms)
             res == IF Len(items[it].result.descs) = 0 \/ r.id = <<>> THEN <<>>
                    ELSE <<[LayerIndex |-> r.ms.chainsByID[r.id]]>>
             ms1 == IF Len(items[it].result.descs) = 0 THEN acc.ms ELSE r.ms
         IN  [ms |-> [ms1 EXCEPT
                        !.recordsByItem = Put(@, it, Len(ms1.records) + 1),
                        !.records = Append(@, [Digest |-> items[it].dgst,
                                               Inputs |-> acc.inputs,
                                               Results |-> res])],
              err |-> "none"]

\* utils.go:346-359  the result of the item, then the record is appended
AppendRecord(items, it, acc) ==
    IF acc.err # "none" THEN [ms |-> acc.ms, err |-> acc.err]
    ELSE LET r   == marshalRemote(items[it].result, acc.ms)
             res == IF Len(items[it].result.descs) = 0 \/ r.id = <<>> THEN <<>>
                    ELSE <<[LayerIndex |-> r.ms.chainsByID[r.id]]>>
             ms1 == IF Len(items[it].result.descs) = 0 THEN acc.ms ELSE r.ms
         IN  [ms |-> [ms1 EXCEPT
                        !.recordsByItem = Put(@, it, Len(ms1.records)),
                        !.records = Append(@, [Digest |-> items[it].dgst,
                                               Inputs |-> acc.inputs,
                                               Results |-> res])],
              err |-> "none"]

marshalItem(items, it, c, stack) ==
    IF it \in DOMAIN c.ms.recordsByItem THEN {c}
    ELSE IF it \in stack THEN {[c EXCEPT !.err = "overflow"]}
    ELSE LET lks == items[it].links
         IN  { AppendRecord(items, it, a) :
               a \in MarshalSlots(items, lks, 1,
                                  [ms |-> c.ms, err |-> "none",
                                   inputs |-> [i \in 1..Len(lks) |-> <<>>]],
                                  stack \cup {it}) }

(***************************************************************************)
(* utils.go:33-35  the comparison of two layers: Blob, then ParentIndex    *)
(* (the index the parent has BEFORE the sort).                             *)
(***************************************************************************)
layerLess(a, b) ==
    \/ a.Blob < b.Blob
    \/ a.Blob = b.Blob /\ a.ParentIndex < b.ParentIndex

(***************************************************************************)
(* utils.go:71-86  the nested loops of the comparison of two records of    *)
(* equal Digest and equal number of inputs, from input i, entry j on.      *)
(* cc.Records is the array before the sort.                                *)
(***************************************************************************)
RECURSIVE inputsLess(_, _, _, _, _)
inputsLess(cc, ri, rj, i, j) ==
    IF i > Len(ri.Inputs) THEN FALSE
    ELSE IF j = 1 /\ Len(ri.Inputs[i]) # Len(rj.Inputs[i])
    THEN Len(ri.Inputs[i]) < Len(rj.Inputs[i])
    ELSE IF j > Len(ri.Inputs[i]) THEN inputsLess(cc, ri, rj, i + 1, 1)
    ELSE IF ri.Inputs[i][j].Selector # rj.Inputs[i][j].Selector
    THEN ri.Inputs[i][j].Selector < rj.Inputs[i][j].Selector
    ELSE LET inputDigesti == cc.Records[ri.Inputs[i][j].LinkIndex + 1].Digest
             inputDigestj == cc.Records[rj.Inputs[i][j].LinkIndex + 1].Digest
         IN  IF inputDigesti # inputDigestj THEN inputDigesti < inputDigestj
             ELSE inputsLess(cc, ri, rj, i, j + 1)

\* utils.go:62-87  the less function of sort.Slice over the records
recordLess(cc, ri, rj) ==
    IF ri.Digest # rj.Digest THEN ri.Digest < rj.Digest
    ELSE IF Len(ri.Inputs) # Len(rj.Inputs) THEN Len(ri.Inputs) < Len(rj.Inputs)
    ELSE inputsLess(cc, ri, rj, 1, 1)

\* utils.go:101-103  the comparison of two entries of one input
inputLess(a, b) == a.LinkIndex < b.LinkIndex

(***************************************************************************)
(* sort.Slice and slices.SortFunc run an insertion sort on up to 12        *)
(* elements (pdqsort's maxInsertion), which leaves equal elements in their *)
(* order.  NewIndex(n, less) is the 0-based place each of the elements     *)
(* 1..n gets: after the smaller ones and after the equal ones that came    *)
(* before it; less[j][i] is the less function of the sort on j and i.      *)
(***************************************************************************)
NewIndex(n, less) ==
    [i \in 1..n |->
        Cardinality({j \in 1..n : less[j][i]})
        + Cardinality({j \in 1..(i - 1) : ~less[j][i] /\ ~less[i][j]})]

\* the sequence s put in the places new gives (new[i] is the 0-based place of s[i])
Permute(s, new) ==
    [k \in 1..Len(s) |-> s[CHOOSE i \in 1..Len(s) : new[i] = k - 1]]

\* sortConfig forgetting to rewrite ParentIndex: the layer keeps the old index of its parent
rewriteParentStale(l, newLay) == l

\* utils.go:42-44  the ParentIndex of a layer, rewritten to the new place of its parent
rewriteParent(l, newLay) ==
    IF l.ParentIndex # -1 THEN [l EXCEPT !.ParentIndex = newLay[@ + 1]] ELSE l

\* sortConfig leaving the LinkIndex of the inputs as they were before the sort
sortInputStale(inputs, newRec) == inputs

\* sortConfig rewriting the LinkIndex of the inputs without sorting them
sortInputUnsorted(inputs, newRec) ==
    [k \in 1..Len(inputs) |-> [inputs[k] EXCEPT !.LinkIndex = newRec[@ + 1]]]

\* utils.go:97-104  one input of a record: LinkIndex rewritten, then sorted by LinkIndex
sortInput(inputs, newRec) ==
    LET rw == [k \in 1..Len(inputs) |->
                 [inputs[k] EXCEPT !.LinkIndex = newRec[@ + 1]]]
        less == [a \in 1..Len(rw) |-> [b \in 1..Len(rw) |-> inputLess(rw[a], rw[b])]]
    IN  Permute(rw, NewIndex(Len(rw), less))

\* utils.go:18-110  sortConfig(cc)
sortConfig(cc) ==
    LET nl      == Len(cc.Layers)
        nr      == Len(cc.Records)
        lless   == [a \in 1..nl |-> [b \in 1..nl |-> layerLess(cc.Layers[a], cc.Layers[b])]]
        newLay  == NewIndex(nl, lless)
        layers  == Permute([i \in 1..Len(cc.Layers) |-> rewriteParent(cc.Layers[i], newLay)],
                           newLay)
        rless   == [a \in 1..nr |->
                      [b \in 1..nr |-> recordLess(cc, cc.Records[a], cc.Records[b])]]
        newRec  == NewIndex(nr, rless)
        records == Permute([i \in 1..Len(cc.Records) |->
                              [cc.Records[i] EXCEPT
                                 !.Results = [j \in 1..Len(@) |->
                                                [@[j] EXCEPT !.LayerIndex = newLay[@ + 1]]],
                                 !.Inputs = [j \in 1..Len(@) |-> sortInput(@[j], newRec)]]],
                           newRec)
    IN  [Layers |-> layers, Records |-> records]

(***************************************************************************)
(* The state.  graph is the item graph as it was built (it.links is        *)
(* overwritten by normalizeItem and removeLoops, graph keeps the original).*)
(* items is the heap: the fields of every item.  added, links, byKey and   *)
(* next are the fields of normalizeState, ms is the marshalState, cc the   *)
(* CacheConfig after sortConfig.  pc is the place of the export in         *)
(* CacheChains.Marshal: normalize, then removeLoops, then marshalItem of   *)
(* every canonical item, then sortConfig.  last is the last call made and  *)
(* what it returned.  loops records what removeLoops did.                  *)
(***************************************************************************)
VARIABLES graph, items, added, links, byKey, next, ms, cc, pc, last, loops, prev

\* rem: two layer chains and what isSubRemote, diff and merge made of them
VARIABLES rem

\* the solver: the predecessors of the vertices, the terminal vertex and the state of every
\* job, the tasks, the map from vertex (fast key) to task, the worker calls per vertex
VARIABLES preds, target, jstate, tasks, taskOf, calls, jerr

\* wk: the result handles of the worker, their ref-counts and who holds them
VARIABLES wk

\* dm: the buildkitd processes started on one root directory and its lock file
VARIABLES dm

exportVars == <<graph, items, added, links, byKey, next, ms, cc, pc, last, loops, prev>>

solverVars == <<preds, target, jstate, tasks, taskOf, calls, jerr>>

vars == <<exportVars, rem, solverVars, wk, dm>>

\* no chains are being compared
NoRem == [pc |-> "none"]

\* no build has loaded a result
NoWork == [pc |-> "none"]

\* no daemon outside the daemon specification
NoDaemon == [pc |-> "none"]

\* no job was submitted to the solver
IdleSolver ==
    /\ preds = <<>>
    /\ target = <<>>
    /\ jstate = <<>>
    /\ tasks = <<>>
    /\ taskOf = <<>>
    /\ calls = <<>>
    /\ jerr = <<>>

Items == 1..Len(graph)

\* no config yet
None == [Layers |-> <<>>, Records |-> <<>>]

World == [items |-> items, added |-> added, links |-> links, byKey |-> byKey, next |-> next]

NoRemote == [descs |-> <<>>, bad |-> {}]

Item(dgst, lks) == [dgst |-> dgst, links |-> lks, result |-> NoRemote]

(***************************************************************************)
(* The item graphs the export is run on.  Item 1 is a source vertex (no    *)
(* inputs).  NSel selectors, NDgst vertex digests.                         *)
(***************************************************************************)
NSel == 2
NDgst == 2
MaxLinks == 2
GenItems == 3
FanItems == 5
NearItems == 4
JoinItems == 4
DiamondItems == 5

Selectors == 1..NSel

\* the sets of at most k links to the items srcs
LinkSets(srcs, k) ==
    {S \in SUBSET {Link(src, sel) : src \in srcs, sel \in Selectors} : Cardinality(S) <= k}

\* the graphs of n items whose item k has one of the shapes shapes[k]
Graphs(n, shapes) ==
    {g \in [1..n -> UNION {shapes[k] : k \in 1..n}] : \A k \in 1..n : g[k] \in shapes[k]}

\* any item of up to two inputs, linked to any item (itself included); an input may be empty
GenShapes(k, n) ==
    IF k = 1 THEN {Item(1, <<>>)}
    ELSE {Item(d, <<>>) : d \in 1..NDgst}
         \cup {Item(NDgst, <<S>>) : S \in LinkSets(1..n, MaxLinks)}
         \cup {Item(NDgst, <<S, T>>) : S \in LinkSets(1..n, 1), T \in LinkSets(1..n, 1)}

\* items of one input that all link to item 1
FanShapes(k, n) ==
    IF k = 1 THEN {Item(1, <<>>)}
    ELSE {Item(NDgst, <<S>>) : S \in LinkSets({1}, MaxLinks) \ {{}}}

\* items of one input linked to item 1 or to the item before
NearShapes(k, n) ==
    IF k = 1 THEN {Item(1, <<>>)}
    ELSE {Item(NDgst, <<S>>) : S \in LinkSets({1, k - 1}, MaxLinks) \ {{}}}

\* items of one input linked to item 1, and a last item of two inputs: input 0 linked
\* to item 2 and input 1 to the item before it (C(B(A), B'(A)) when there are four)
JoinShapes(k, n) ==
    IF k = 1 THEN {Item(1, <<>>)}
    ELSE IF k < n THEN {Item(NDgst, <<{Link(1, s)}>>) : s \in Selectors}
    ELSE {Item(NDgst + 1, <<{Link(2, s)}, {Link(n - 1, t)}>>) : s, t \in Selectors}

\* a diamond whose join has children: items 2 and 3 are linked to item 1, item 4 has two
\* inputs linked to items 2 and 3, every later item is linked to the item before it
DiamondShapes(k, n) ==
    IF k = 1 THEN {Item(1, <<>>)}
    ELSE IF k < 4 THEN {Item(NDgst, <<{Link(1, s)}>>) : s \in Selectors}
    ELSE IF k = 4 THEN {Item(NDgst + 1, <<{Link(2, s)}, {Link(3, t)}>>) : s, t \in Selectors}
    ELSE {Item(NDgst, <<{Link(k - 1, s)}>>) : s \in Selectors}

NormGraphs ==
    Graphs(GenItems, [k \in 1..GenItems |-> GenShapes(k, GenItems)])
    \cup Graphs(FanItems, [k \in 1..FanItems |-> FanShapes(k, FanItems)])
    \cup Graphs(NearItems, [k \in 1..NearItems |-> NearShapes(k, NearItems)])
    \cup Graphs(JoinItems, [k \in 1..JoinItems |-> JoinShapes(k, JoinItems)])
    \cup Graphs(DiamondItems, [k \in 1..DiamondItems |-> DiamondShapes(k, DiamondItems)])

NoCall == [op |-> "none", it |-> Nil, ret |-> Nil, err |-> "none", arg |-> None,
           matches |-> {}, seen |-> {}]
NoPrev == [set |-> FALSE, raw |-> None, cc |-> None]
NoLoops == [done |-> FALSE, cyclic |-> FALSE, tried |-> 0, warned |-> 0, dropped |-> {}]

Init ==
    /\ graph \in NormGraphs
    /\ items = graph
    /\ added = EmptyFn
    /\ links = EmptyFn
    /\ byKey = EmptyFn
    /\ next = 0
    /\ ms = NewMarshalState
    /\ cc = None
    /\ pc = "normalize"
    /\ last = NoCall
    /\ loops = NoLoops
    /\ prev = NoPrev
    /\ rem = NoRem
    /\ IdleSolver
    /\ wk = NoWork
    /\ dm = NoDaemon

\* pc after a call that returned err
After(err, ok) ==
    IF err = "none" THEN ok
    ELSE IF err \in {"overflow", "panic"} THEN "crashed"
    ELSE "failed"

\* CacheChains.normalize calls normalizeItem on the items; here on any item, in any order
NormalizeItem(it) ==
    /\ pc = "normalize"
    /\ \E o \in normalizeItem(it, World, {}) :
        /\ items' = o.w.items
        /\ added' = o.w.added
        /\ links' = o.w.links
        /\ byKey' = o.w.byKey
        /\ next' = o.w.next
        /\ last' = [op |-> "normalizeItem", it |-> it, ret |-> o.ret, err |-> o.err,
                    arg |-> None, matches |-> o.matches, seen |-> o.seen]
        /\ pc' = After(o.err, "normalize")
    /\ UNCHANGED <<rem, solverVars, wk, dm, graph, ms, cc, loops, prev>>

\* whether the links of the canonical items form a cycle
RECURSIVE Reach(_, _, _)
Reach(its, from, seen) ==
    LET nxt == {l.src : l \in UNION {UNION Range(its[i].links) : i \in from}} \ seen
    IN  IF nxt = {} THEN seen ELSE Reach(its, nxt, seen \cup nxt)

Cyclic(its, among) == \E i \in among : i \in Reach(its, {i}, {})

\* CacheChains.normalize calls removeLoops once every item is normalized
RemoveLoops ==
    /\ pc = "normalize"
    /\ DOMAIN added = Items
    /\ \E c \in removeLoops(World) :
        /\ items' = c.w.items
        /\ added' = c.w.added
        /\ links' = c.w.links
        /\ byKey' = c.w.byKey
        /\ next' = c.w.next
        /\ loops' = [done |-> TRUE, cyclic |-> Cyclic(items, Range(byKey)),
                     tried |-> c.tried, warned |-> c.warned, dropped |-> c.dropped]
    /\ last' = [NoCall EXCEPT !.op = "removeLoops"]
    /\ pc' = "marshal"
    /\ UNCHANGED <<rem, solverVars, wk, dm, graph, ms, cc, prev>>

\* CacheChains.Marshal calls marshalItem on every canonical item, in the order of a map
MarshalItem(it) ==
    /\ pc = "marshal"
    /\ it \in Range(byKey)
    /\ it \notin DOMAIN ms.recordsByItem
    /\ \E c \in marshalItem(items, it, [ms |-> ms, err |-> "none"], {}) :
        /\ ms' = c.ms
        /\ last' = [NoCall EXCEPT !.op = "marshalItem", !.it = it, !.err = c.err]
        /\ pc' = After(c.err, "marshal")
    /\ UNCHANGED <<rem, solverVars, wk, dm, graph, items, added, links, byKey, next, cc, loops, prev>>

\* the CacheConfig CacheChains.Marshal builds from the marshalState
Raw == [Layers |-> ms.layers, Records |-> ms.records]

\* CacheChains.Marshal calls sortConfig on the layers and records of the marshalState
SortConfig ==
    /\ pc = "marshal"
    /\ Range(byKey) \subseteq DOMAIN ms.recordsByItem
    /\ cc' = sortConfig(Raw)
    /\ last' = [NoCall EXCEPT !.op = "sortConfig", !.arg = Raw]
    /\ pc' = "sorted"
    /\ UNCHANGED <<rem, solverVars, wk, dm, graph, items, added, links, byKey, next, ms, loops, prev>>

Next ==
    \/ \E it \in Items : NormalizeItem(it)
    \/ RemoveLoops
    \/ \E it \in Items : MarshalItem(it)
    \/ SortConfig

Spec == Init /\ [][Next]_vars

(***************************************************************************)
(* The export of an item graph that carries results, run twice over, and   *)
(* sortConfig applied to its own output.                                   *)
(***************************************************************************)
NBlob == 3
MaxChain == 2
LayerItems == 2
LinkItems == 3
PairItems == 4

\* the layer chains of a result: up to MaxChain different blobs
Chains ==
    UNION {{c \in [1..n -> 1..NBlob] : \A i, j \in 1..n : i # j => c[i] # c[j]} : n \in 0..MaxChain}

\* an item with inputs among the items before it
LowerShapes(k, n) ==
    {Item(d, <<>>) : d \in 1..NDgst}
    \cup {Item(d, <<S>>) : d \in 1..NDgst, S \in LinkSets(1..(k - 1), MaxLinks) \ {{}}}

\* two items with results
LayerShapes(k, n) ==
    IF k = 1 THEN {[Item(1, <<>>) EXCEPT !.result.descs = c] : c \in Chains}
    ELSE {[it EXCEPT !.result.descs = c] :
            it \in {Item(NDgst, <<>>)} \cup {Item(NDgst, <<S>>) : S \in LinkSets({1}, MaxLinks) \ {{}}},
            c \in Chains}

\* a root, an item linked to it, and items whose one input holds a link to each of the two
PairShapes(k, n) ==
    IF k = 1 THEN {Item(d, <<>>) : d \in 1..NDgst}
    ELSE IF k = 2 THEN {Item(d, <<{Link(1, s)}>>) : d \in 1..NDgst, s \in Selectors}
    ELSE {Item(NDgst, <<{Link(1, s), Link(2, t)}>>) : s, t \in Selectors}

\* two items with results; the Provider of the second fails on one blob
ProviderShapes(k, n) ==
    IF k = 1 THEN {[Item(1, <<>>) EXCEPT !.result.descs = c] : c \in Chains}
    ELSE {[Item(NDgst, <<{Link(1, 1)}>>) EXCEPT !.result.descs = c, !.result.bad = {b}] :
            c \in Chains, b \in 1..NBlob}

ExportGraphs ==
    Graphs(LayerItems, [k \in 1..LayerItems |-> LayerShapes(k, LayerItems)])
    \cup Graphs(LayerItems, [k \in 1..LayerItems |-> ProviderShapes(k, LayerItems)])
    \cup Graphs(LinkItems, [k \in 1..LinkItems |-> LowerShapes(k, LinkItems)])
    \cup Graphs(PairItems, [k \in 1..PairItems |-> PairShapes(k, PairItems)])

\* CacheChains.normalize: normalizeItem on the items k.. in their order, then removeLoops
RECURSIVE normalizeFrom(_, _, _)
normalizeFrom(k, n, w) ==
    IF k > n THEN removeLoops(w)
    ELSE UNION { IF o.err = "none" THEN normalizeFrom(k + 1, n, o.w) ELSE {} :
                 o \in normalizeItem(k, w, {}) }

InitExport ==
    /\ graph \in ExportGraphs
    /\ \E c \in normalizeFrom(1, Len(graph),
                   [items |-> graph, added |-> EmptyFn, links |-> EmptyFn,
                    byKey |-> EmptyFn, next |-> 0]) :
        /\ items = c.w.items
        /\ added = c.w.added
        /\ links = c.w.links
        /\ byKey = c.w.byKey
        /\ next = c.w.next
        /\ loops = [done |-> TRUE, cyclic |-> FALSE, tried |-> c.tried,
                    warned |-> c.warned, dropped |-> c.dropped]
    /\ ms = NewMarshalState
    /\ cc = None
    /\ pc = "marshal"
    /\ last = [NoCall EXCEPT !.op = "removeLoops"]
    /\ prev = NoPrev
    /\ rem = NoRem
    /\ IdleSolver
    /\ wk = NoWork
    /\ dm = NoDaemon

\* a second export of the same normalized graph: CacheChains.Marshal once more
Restart ==
    /\ pc = "sorted"
    /\ ~prev.set
    /\ prev' = [set |-> TRUE, raw |-> Raw, cc |-> cc]
    /\ ms' = NewMarshalState
    /\ cc' = None
    /\ pc' = "marshal"
    /\ last' = NoCall
    /\ UNCHANGED <<rem, solverVars, wk, dm, graph, items, added, links, byKey, next, loops>>

\* sortConfig on a config that sortConfig returned
SortAgain ==
    /\ pc = "sorted"
    /\ cc' = sortConfig(cc)
    /\ last' = [NoCall EXCEPT !.op = "sortConfig", !.arg = cc]
    /\ pc' = "resorted"
    /\ UNCHANGED <<rem, solverVars, wk, dm, graph, items, added, links, byKey, next, ms, loops, prev>>

NextExport ==
    \/ \E it \in Items : MarshalItem(it)
    \/ SortConfig
    \/ Restart
    \/ SortAgain

SpecExport == InitExport /\ [][NextExport]_vars

(***************************************************************************)
(* Claims about the exported config (SpecExport).                          *)
(***************************************************************************)
Exported == pc \in {"sorted", "resorted"}

\* the layer reached from layer index p (0-based, or -1) after n steps along ParentIndex
RECURSIVE Up(_, _, _)
Up(L, p, n) ==
    IF n = 0 \/ p = -1 THEN p ELSE Up(L, L[p + 1].ParentIndex, n - 1)

\* C1, as claimed: in the exported config (marshalRemote, then sortConfig) every
\* layer's ParentIndex is -1 or strictly smaller than the layer's own index.
C1_NoForwardReference ==
    Exported =>
        \A i \in 1..Len(cc.Layers) :
            cc.Layers[i].ParentIndex = -1 \/ cc.Layers[i].ParentIndex < i - 1

\* C1, amended: the layers marshalRemote appends have a ParentIndex that is -1 or
\* strictly smaller than their own index; in the exported config, after sortConfig,
\* every ParentIndex is -1 or the index of another layer, and following ParentIndex
\* from any layer ends at -1 (no cycle).
C1_LayersAcyclic ==
    /\ \A i \in 1..Len(ms.layers) :
          ms.layers[i].ParentIndex = -1 \/ ms.layers[i].ParentIndex \in 0..(i - 2)
    /\ Exported =>
          \A i \in 1..Len(cc.Layers) :
             /\ cc.Layers[i].ParentIndex \in (-1..(Len(cc.Layers) - 1)) \ {i - 1}
             /\ Up(cc.Layers, i - 1, Len(cc.Layers)) = -1

\* a sorted config in which a layer comes before its parent
C1_Witness ==
    /\ pc = "sorted"
    /\ \E i \in 1..Len(cc.Layers) : cc.Layers[i].ParentIndex > i - 1

\* the one-to-one maps of 1..n onto the places 0..n-1
Places(n) == {f \in [1..n -> 0..(n - 1)] : \A i, j \in 1..n : i # j => f[i] # f[j]}

\* the config a with its layers moved to the places pl and its records to the places pr,
\* every index renamed accordingly (the entries of each input keep their order)
Rename(a, pl, pr) ==
    [Layers  |-> Permute([i \in 1..Len(a.Layers) |-> rewriteParent(a.Layers[i], pl)], pl),
     Records |-> Permute([i \in 1..Len(a.Records) |->
                            [a.Records[i] EXCEPT
                               !.Results = [j \in 1..Len(@) |->
                                              [@[j] EXCEPT !.LayerIndex = pl[@ + 1]]],
                               !.Inputs = [j \in 1..Len(@) |->
                                             [k \in 1..Len(@[j]) |->
                                                [@[j][k] EXCEPT !.LinkIndex = pr[@ + 1]]]]]],
                         pr)]

IsRenaming(a, b) ==
    /\ Len(a.Layers) = Len(b.Layers)
    /\ Len(a.Records) = Len(b.Records)
    /\ \E pl \in Places(Len(a.Layers)) : \E pr \in Places(Len(a.Records)) :
          Rename(a, pl, pr) = b

\* C2: two configs that differ only by a permutation of Layers and of Records (indices
\* renamed consistently) are sorted by sortConfig into identical Layers and Records.
C2_SortOrderIndependent ==
    (pc = "sorted" /\ prev.set /\ IsRenaming(prev.raw, Raw)) => cc = prev.cc

\* two configs that are equal but for the order of the entries inside the inputs
SameButLinkOrder(a, b) ==
    /\ a.Layers = b.Layers
    /\ Len(a.Records) = Len(b.Records)
    /\ \A r \in 1..Len(a.Records) :
          /\ a.Records[r].Digest = b.Records[r].Digest
          /\ a.Records[r].Results = b.Records[r].Results
          /\ Len(a.Records[r].Inputs) = Len(b.Records[r].Inputs)
          /\ \A i \in 1..Len(a.Records[r].Inputs) :
                /\ Len(a.Records[r].Inputs[i]) = Len(b.Records[r].Inputs[i])
                /\ Range(a.Records[r].Inputs[i]) = Range(b.Records[r].Inputs[i])

\* C3: marshalItem followed by sortConfig gives the same output whatever the order in
\* which the links of an item are visited, the order of the entries inside Inputs[i]
\* included.
C3_LinkOrderIndependent ==
    (pc = "sorted" /\ prev.set /\ SameButLinkOrder(prev.raw, Raw)) => cc = prev.cc

\* C4: sortConfig applied to a config that sortConfig returned leaves it unchanged.
C4_SortIdempotent ==
    pc = "resorted" => cc = last.arg

(***************************************************************************)
(* Claims about normalizeItem, removeLoops and marshalItem (Spec).         *)
(***************************************************************************)

\* what normalizeItem compares of an item: its digest and, for every input, the
\* selectors and the canonical items of the sources of its links
Signature(it) ==
    [dgst  |-> graph[it].dgst,
     slots |-> [i \in 1..Len(graph[it].links) |->
                  {<<added[l.src], l.selector>> : l \in graph[it].links[i]}]]

\* C5: two normalized items of the same digest whose inputs hold links with the same
\* selectors to sources with the same canonical items have one and the same canonical
\* item.
C5_OneCanonicalItem ==
    \A a, b \in DOMAIN added :
        Signature(a) = Signature(b) => added[a] = added[b]

\* items a and b have the same digest and the same inputs, but for one input, where
\* each has a single link to the same source with another selector
DifferBySelector(a, b) ==
    /\ graph[a].dgst = graph[b].dgst
    /\ Len(graph[a].links) = Len(graph[b].links)
    /\ \E i \in 1..Len(graph[a].links) :
          /\ \E la \in graph[a].links[i] : \E lb \in graph[b].links[i] :
                /\ graph[a].links[i] = {la}
                /\ graph[b].links[i] = {lb}
                /\ added[la.src] = added[lb.src]
                /\ la.selector # lb.selector
          /\ \A j \in 1..Len(graph[a].links) :
                j # i => Signature(a).slots[j] = Signature(b).slots[j]

\* C6: two items of the same digest with a link in the same input to the same source
\* but with different selectors are never merged: their canonical items differ.
C6_SelectorsDistinguish ==
    \A a, b \in DOMAIN added :
        DifferBySelector(a, b) => added[a] # added[b]

\* the items reached from it along the links of the graph, it included
ReachFrom(it) == Reach(graph, {it}, {it})

HasEmptySlot(it) == \E i \in 1..Len(graph[it].links) : graph[it].links[i] = {}

\* C7: normalizeItem returns an error for every item with an empty input, the item is
\* then neither in state.added nor in state.byKey, and the error reaches every item
\* that links to it, directly or not.
C7_EmptySlotIsAnError ==
    (last.op = "normalizeItem" /\ \E e \in ReachFrom(last.it) : HasEmptySlot(e)) =>
        /\ last.err = "invalid incomplete links"
        /\ last.it \notin DOMAIN added
        /\ last.it \notin Range(byKey)

\* C8: every record emitted (normalizeItem, removeLoops, marshalItem, sortConfig) has a
\* non-empty Inputs[i] for every one of its inputs.
C8_NoEmptyInput ==
    /\ \A r \in 1..Len(ms.records) :
          \A i \in 1..Len(ms.records[r].Inputs) : ms.records[r].Inputs[i] # <<>>
    /\ \A r \in 1..Len(cc.Records) :
          \A i \in 1..Len(cc.Records[r].Inputs) : cc.Records[r].Inputs[i] # <<>>

\* two items that link to each other
TwoCycle ==
    \E a, b \in Items :
        /\ a # b
        /\ \E l \in UNION Range(graph[a].links) : l.src = b
        /\ \E l \in UNION Range(graph[b].links) : l.src = a

\* C9: on a graph with an A->B->A cycle normalization terminates, one of the two links
\* is dropped and a serialization is produced.
C9_CycleTolerated ==
    TwoCycle =>
        /\ pc # "crashed"
        /\ pc = "normalize" => ENABLED Next
        /\ loops.done => Cardinality(loops.dropped) = 1

\* C10: on a graph without pointer cycle, normalizeItem, removeLoops and marshalItem
\* terminate, and when dedup has linked the canonical items in a cycle marshalItem
\* returns no error.
C10_KeyLoopExportCompletes ==
    ~Cyclic(graph, Items) =>
        /\ pc # "crashed"
        /\ loops.cyclic => pc # "failed"
        /\ loops.cyclic /\ last.op = "marshalItem" => last.err = "none"

\* an export that ran to its end on a graph whose canonical items were linked in a cycle
C10_Witness ==
    /\ ~Cyclic(graph, Items)
    /\ loops.cyclic
    /\ pc = "sorted"
    /\ Len(cc.Records) > 1

\* the graph C(B(A), B'(A)): item 1 is A, the last item is C, its two inputs are linked
\* to B and B', and the items between A and C all have the digest and the link of B
CacheLoop ==
    /\ Len(graph) >= 4
    /\ graph \in Graphs(Len(graph), [k \in 1..Len(graph) |-> JoinShapes(k, Len(graph))])
    /\ \A k \in 2..(Len(graph) - 1) : graph[k] = graph[2]

\* C11: for the graph C(B(A), B'(A)) whose two B items have the same digest and the same
\* link to A, normalization followed by marshalItem of C gives exactly 3 records.
C11_CacheLoopThreeRecords ==
    CacheLoop =>
        /\ (last.op = "marshalItem" /\ last.it = added[Len(graph)]) =>
              (last.err = "none" /\ Len(ms.records) = 3)
        /\ pc = "sorted" => Len(cc.Records) = 3

\* marshalItem of C has returned on the cache-loop graph
C11_Witness ==
    /\ CacheLoop
    /\ last.op = "marshalItem"
    /\ last.it = added[Len(graph)]
    /\ added[3] = 2
    /\ Len(ms.records) = 3

\* C12: removeLoops drops a link only when it closes a cycle: when the links of the
\* canonical items form no cycle, removeLink is never called and no link is dropped.
C12_DropsOnlyCycles ==
    (loops.done /\ ~loops.cyclic) => (loops.tried = 0 /\ loops.dropped = {})

InputBag(inp) ==
    [e \in Range(inp) |-> Cardinality({k \in 1..Len(inp) : inp[k] = e})]

\* config b holds the layers and records of config a at the places pl and pr, and every
\* ParentIndex, LayerIndex and LinkIndex of b is the new place of what it named in a
RefersAlike(a, b, pl, pr) ==
    /\ \A i \in 1..Len(a.Layers) :
          LET la == a.Layers[i]
              lb == b.Layers[pl[i] + 1]
          IN  /\ lb.Blob = la.Blob
              /\ lb.ParentIndex = IF la.ParentIndex = -1 THEN -1 ELSE pl[la.ParentIndex + 1]
    /\ \A r \in 1..Len(a.Records) :
          LET ra == a.Records[r]
              rb == b.Records[pr[r] + 1]
          IN  /\ rb.Digest = ra.Digest
              /\ Len(rb.Results) = Len(ra.Results)
              /\ \A j \in 1..Len(ra.Results) :
                    rb.Results[j].LayerIndex = pl[ra.Results[j].LayerIndex + 1]
              /\ Len(rb.Inputs) = Len(ra.Inputs)
              /\ \A j \in 1..Len(ra.Inputs) :
                    InputBag(rb.Inputs[j]) =
                        InputBag([k \in 1..Len(ra.Inputs[j]) |->
                                    [ra.Inputs[j][k] EXCEPT !.LinkIndex = pr[@ + 1]]])

\* C14: sortConfig keeps the numbers of layers and records, and every ParentIndex,
\* LayerIndex and LinkIndex of its result names the layer or record that the index
\* named before the sort (-1 stays -1).
C14_RewritePreservesReferences ==
    last.op = "sortConfig" =>
        /\ Len(cc.Layers) = Len(last.arg.Layers)
        /\ Len(cc.Records) = Len(last.arg.Records)
        /\ \E pl \in Places(Len(cc.Layers)) : \E pr \in Places(Len(cc.Records)) :
              RefersAlike(last.arg, cc, pl, pr)

\* sortConfig has moved the parent of a layer and the layer of a result: the ParentIndex
\* and the LayerIndex had to be rewritten
C14_Witness ==
    /\ last.op = "sortConfig"
    /\ \E i \in 1..Len(last.arg.Layers) :
          /\ last.arg.Layers[i].ParentIndex # -1
          /\ \A j \in 1..Len(cc.Layers) :
                cc.Layers[j].Blob = last.arg.Layers[i].Blob =>
                    cc.Layers[j].ParentIndex # last.arg.Layers[i].ParentIndex
    /\ \E r \in 1..Len(last.arg.Records) :
          /\ Len(last.arg.Records[r].Results) = 1
          /\ \A q \in 1..Len(cc.Records) :
                (cc.Records[q].Digest = last.arg.Records[r].Digest
                    /\ Len(cc.Records[q].Results) = 1) =>
                    cc.Records[q].Results[1].LayerIndex
                        # last.arg.Records[r].Results[1].LayerIndex

\* C15: no two entries of the Layers array built by marshalRemote have the same Blob.
C15_LayersUniqueByBlob ==
    \A i, j \in 1..Len(ms.layers) :
        i # j => ms.layers[i].Blob # ms.layers[j].Blob

\* C15 amended: marshalRemote keeps one layer per chain: no two entries of Layers have
\* the same Blob and the same ParentIndex, before and after sortConfig, and there are as
\* many layers as chain ids.
C15_LayersUniqueByChain ==
    /\ \A i, j \in 1..Len(ms.layers) : i # j => ms.layers[i] # ms.layers[j]
    /\ \A i, j \in 1..Len(cc.Layers) : i # j => cc.Layers[i] # cc.Layers[j]
    /\ Len(ms.layers) = Cardinality(DOMAIN ms.chainsByID)

\* two items whose chains begin with the same blob were marshalled: marshalRemote found
\* the chain id of the second in chainsByID and appended fewer layers than descriptors
C15_Witness ==
    \E a, b \in DOMAIN ms.recordsByItem :
        /\ a # b
        /\ items[a].result.descs # <<>>
        /\ items[b].result.descs # <<>>
        /\ items[a].result.descs[1] = items[b].result.descs[1]
        /\ Len(ms.layers) < Len(items[a].result.descs) + Len(items[b].result.descs)

(***************************************************************************)
(* The import of an exported config: the records are parsed back into      *)
(* items, item r for record r, linked by LinkIndex, and a vertex of the    *)
(* definition is satisfied from the import when its cache key is found:    *)
(* a parsed item of the same digest and number of inputs with, for every   *)
(* input, a link of the same selector to an item in which the key of the   *)
(* source is found.                                                        *)
(***************************************************************************)
parse(c) ==
    [r \in 1..Len(c.Records) |->
        Item(c.Records[r].Digest,
             [i \in 1..Len(c.Records[r].Inputs) |->
                {Link(e.LinkIndex + 1, e.Selector) : e \in Range(c.Records[r].Inputs[i])}])]

\* the key of item it of graph g is found at the parsed item r of p; n bounds the depth
RECURSIVE keyFound(_, _, _, _, _)
keyFound(p, r, g, it, n) ==
    /\ n > 0
    /\ p[r].dgst = g[it].dgst
    /\ Len(p[r].links) = Len(g[it].links)
    /\ \A i \in 1..Len(g[it].links) :
          \E l \in g[it].links[i] : \E e \in p[r].links[i] :
              e.selector = l.selector /\ keyFound(p, e.src, g, l.src, n - 1)

\* C24: once the cache of a build is exported and imported again, every vertex of the
\* definition is satisfied from the imported records.
C24_ExportImportRoundTrip ==
    (pc = "sorted" /\ ~Cyclic(graph, Items)) =>
        \A it \in Items :
            \E r \in 1..Len(cc.Records) : keyFound(parse(cc), r, graph, it, Len(graph))

\* C25: normalizeItem maps an item onto an existing canonical item only if the id of that
\* item was found in state.links for every link of the item, in every input, the links of
\* input 0 included: the matches are the intersection of the ids found for the links.
C25_MatchIsIntersection ==
    (last.op = "normalizeItem" /\ last.err = "none" /\ last.matches # {}) =>
        /\ \A s \in last.seen : MinDigest(last.matches) \in s.ids
        /\ \A s \in last.seen : last.matches \subseteq s.ids

\* C26: when the matches of an item are not empty, normalizeItem returns the canonical item
\* registered under the smallest digest of the matches, whatever the order of the map.
C26_SmallestMatchChosen ==
    (last.op = "normalizeItem" /\ last.err = "none" /\ last.matches # {}) =>
        \E id \in last.matches :
            /\ \A m \in last.matches : id <= m
            /\ id \in DOMAIN byKey
            /\ last.ret = byKey[id]
            /\ added[last.it] = byKey[id]

\* normalizeItem had the choice between two canonical items
C26_Witness ==
    /\ last.op = "normalizeItem"
    /\ last.err = "none"
    /\ \E m1, m2 \in last.matches : m1 < m2 /\ byKey[m1] # byKey[m2] /\ last.ret = byKey[m1]

\* the canonical items that have inputs: those normalizeItem gave a fresh identifier
Minted == {it \in Range(byKey) : Len(graph[it].links) > 0}

\* C27: state.next never decreases, it is the number of the items that became a new
\* canonical item with links (so it grows by one for each of them), these items are
\* registered under the identifiers of the counter values 1..next, one each.
C27_CounterCountsFreshItems ==
    /\ [](/\ next = Cardinality(Minted)
          /\ {d \in DOMAIN byKey : byKey[d] \in Minted} = {FreshDigest(n) : n \in 1..next}
          /\ \A d, e \in DOMAIN byKey : (byKey[d] = byKey[e] /\ byKey[d] \in Minted) => d = e
          /\ Cardinality({FreshDigest(n) : n \in 1..next}) = next)
    /\ [][/\ next' >= next
          /\ next' - next = Cardinality({it \in Range(byKey') : Len(graph[it].links) > 0})
                            - Cardinality(Minted)]_vars

\* three items with links were normalized, two of them became canonical items
C27_Witness ==
    /\ next = 2
    /\ Cardinality({it \in DOMAIN added : Len(graph[it].links) > 0}) = 3
    /\ pc = "marshal"

\* C28: after sortConfig, in every record every Inputs[i] is in non-decreasing order of
\* the rewritten LinkIndex.
C28_InputsSortedByLinkIndex ==
    last.op = "sortConfig" =>
        \A r \in 1..Len(cc.Records) : \A i \in 1..Len(cc.Records[r].Inputs) :
            \A k \in 1..(Len(cc.Records[r].Inputs[i]) - 1) :
                cc.Records[r].Inputs[i][k].LinkIndex <= cc.Records[r].Inputs[i][k + 1].LinkIndex

\* the place sortConfig gives to every record of config c
NewRecordIndex(c) ==
    NewIndex(Len(c.Records),
             [a \in 1..Len(c.Records) |->
                [b \in 1..Len(c.Records) |-> recordLess(c, c.Records[a], c.Records[b])]])

\* sortConfig had to sort: an input whose entries, once their LinkIndex was rewritten, were
\* in decreasing order
C28_Witness ==
    /\ last.op = "sortConfig"
    /\ \E q \in 1..Len(last.arg.Records) : \E i \in 1..Len(last.arg.Records[q].Inputs) :
          \E k \in 1..(Len(last.arg.Records[q].Inputs[i]) - 1) :
              NewRecordIndex(last.arg)[last.arg.Records[q].Inputs[i][k].LinkIndex + 1]
                  > NewRecordIndex(last.arg)[last.arg.Records[q].Inputs[i][k + 1].LinkIndex + 1]

\* a (selector, parent digest) pair comes before another
pairLess(a, b) == a.sel < b.sel \/ (a.sel = b.sel /\ a.dg < b.dg)

\* the (selector, parent digest) pairs of one input of a record of config c, sorted
SortedPairs(c, inp) ==
    LET ps   == [k \in 1..Len(inp) |->
                   [sel |-> inp[k].Selector, dg |-> c.Records[inp[k].LinkIndex + 1].Digest]]
        less == [a \in 1..Len(ps) |-> [b \in 1..Len(ps) |-> pairLess(ps[a], ps[b])]]
    IN  Permute(ps, NewIndex(Len(ps), less))

\* the sort key of a record after its digest and its arity: for every input in turn, the
\* number of its links and then its sorted pairs
RECURSIVE SlotKeys(_, _, _)
SlotKeys(c, rec, i) ==
    IF i > Len(rec.Inputs) THEN <<>>
    ELSE <<[sel |-> -1, dg |-> Len(rec.Inputs[i])]>> \o SortedPairs(c, rec.Inputs[i])
         \o SlotKeys(c, rec, i + 1)

\* lexicographic order of two sequences of pairs
LexLeq(a, b) ==
    \/ a = b
    \/ \E k \in 1..Len(a) :
          /\ k <= Len(b)
          /\ \A j \in 1..(k - 1) : a[j] = b[j]
          /\ pairLess(a[k], b[k])

\* C29: after sortConfig the records are in the order of their digest, then of their
\* number of inputs, then, input by input, of the sorted (selector, parent digest) pairs
\* of the input.
C29_RecordsOrderedBySortedPairs ==
    last.op = "sortConfig" =>
        \A r \in 1..(Len(cc.Records) - 1) :
            LET a == cc.Records[r]
                b == cc.Records[r + 1]
            IN  \/ a.Digest < b.Digest
                \/ a.Digest = b.Digest /\ Len(a.Inputs) < Len(b.Inputs)
                \/ /\ a.Digest = b.Digest
                   /\ Len(a.Inputs) = Len(b.Inputs)
                   /\ LexLeq(SlotKeys(cc, a, 1), SlotKeys(cc, b, 1))

\* C30: after sortConfig the layers are in the order of their Blob and, for the same Blob,
\* of their ParentIndex as it stands in the output.
C30_LayersOrderedByBlobThenParent ==
    last.op = "sortConfig" =>
        \A i \in 1..(Len(cc.Layers) - 1) :
            \/ cc.Layers[i].Blob < cc.Layers[i + 1].Blob
            \/ /\ cc.Layers[i].Blob = cc.Layers[i + 1].Blob
               /\ cc.Layers[i].ParentIndex <= cc.Layers[i + 1].ParentIndex

(***************************************************************************)
(* Layer chains: isSubRemote (utils.go:362-372), and the diff and merge of *)
(* chains.  A chain is solver.Remote.Descriptors, a descriptor has a       *)
(* Digest and other fields (here Size); isSubRemote compares the Digest.   *)
(***************************************************************************)
MaxDescs == 2
NSize == 2

Descriptors == [Digest : 1..NDgst, Size : 1..NSize]

Remotes == UNION {[1..n -> Descriptors] : n \in 0..MaxDescs}

\* isSubRemote comparing the lengths only
isSubRemoteByLength(sub, main) == Len(sub) <= Len(main)

\* utils.go:362-372  isSubRemote(sub, main)
isSubRemote(sub, main) ==
    IF Len(sub) > Len(main) THEN FALSE
    ELSE \A i \in 1..Len(sub) : sub[i].Digest = main[i].Digest

\* the diff of two chains: the layers of upper after the first Len(lower) ones
diff(lower, upper) == SubSeq(upper, Len(lower) + 1, Len(upper))

\* the merge of chains: their concatenation in input order
merge(a, b) == a \o b

InitRemote ==
    /\ rem \in {[pc |-> "start", lower |-> l, upper |-> u, sub |-> FALSE,
                 diff |-> <<>>, merged |-> <<>>] : l, u \in Remotes}
    /\ graph = <<>>
    /\ items = <<>>
    /\ added = EmptyFn
    /\ links = EmptyFn
    /\ byKey = EmptyFn
    /\ next = 0
    /\ ms = NewMarshalState
    /\ cc = None
    /\ pc = "none"
    /\ last = NoCall
    /\ loops = NoLoops
    /\ prev = NoPrev
    /\ IdleSolver
    /\ wk = NoWork
    /\ dm = NoDaemon

IsSubRemote ==
    /\ rem.pc = "start"
    /\ rem' = [rem EXCEPT !.pc = "checked", !.sub = isSubRemote(rem.lower, rem.upper)]
    /\ UNCHANGED <<exportVars, solverVars, wk, dm>>

Diff ==
    /\ rem.pc = "checked"
    /\ rem.sub
    /\ rem' = [rem EXCEPT !.pc = "diffed", !.diff = diff(rem.lower, rem.upper)]
    /\ UNCHANGED <<exportVars, solverVars, wk, dm>>

Merge ==
    /\ rem.pc = "diffed"
    /\ rem' = [rem EXCEPT !.pc = "merged", !.merged = merge(rem.lower, rem.diff)]
    /\ UNCHANGED <<exportVars, solverVars, wk, dm>>

NextRemote == IsSubRemote \/ Diff \/ Merge

SpecRemote == InitRemote /\ [][NextRemote]_vars

\* the digests of a chain
Digests(chain) == [i \in 1..Len(chain) |-> chain[i].Digest]

\* C16: when isSubRemote(lower, upper) holds, the merge of lower with diff(lower, upper)
\* is a chain equal to upper: the same blobs in the same order.
C16_MergeOfDiffIsUpper ==
    rem.pc = "merged" => Digests(rem.merged) = Digests(rem.upper)

\* a non-empty lower chain, a proper prefix of upper, was merged with its diff
C16_Witness ==
    /\ rem.pc = "merged"
    /\ rem.lower # <<>>
    /\ rem.diff # <<>>
    /\ Len(rem.merged) = Len(rem.lower) + Len(rem.diff)

(***************************************************************************)
(* The solver / job engine.  Each job is rooted at a terminal vertex; a    *)
(* task evaluates one vertex (fast key) and the engine keeps the map from  *)
(* fast key to task.  A job subscribes to the tasks of its vertex and of   *)
(* all the predecessors; a job arriving on a key that has a task joins it. *)
(* The states of a task are those of the per-vertex state machine.         *)
(***************************************************************************)
NJobs == 2
NVertex == 3
WorkerCap == 1
NErr == 2
MaxLogged == 1

Errors == 1..NErr

Jobs == 1..NJobs

Vertices == 1..NVertex

Terminal == {"finalized", "failed", "cancelled"}

\* the place of a state in the state machine: every transition goes to a later place
Rank(st) ==
    CASE st = "requested" -> 0
      [] st = "keying" -> 1
      [] st = "executing" -> 2
      [] st = "content-keying" -> 3
      [] st = "reused" -> 4
      [] OTHER -> 5

\* the build graphs: the predecessors of a vertex are among the vertices before it
DAGs == {p \in [Vertices -> SUBSET Vertices] : \A v \in Vertices : p[v] \subseteq 1..(v - 1)}

\* the vertices vs and all their predecessors
RECURSIVE Closure(_, _)
Closure(p, vs) ==
    LET more == vs \cup UNION {p[v] : v \in vs}
    IN  IF more = vs THEN vs ELSE Closure(p, more)

\* a new task: no error yet (err), no later error logged
Task(v, j) ==
    [v |-> v, state |-> "requested", waiters |-> {j}, joined |-> {j}, err |-> Nil, logged |-> 0]

\* a job arriving on a key always starting a new task
subscribeAlways(j, v, T) ==
    [tasks |-> Append(T.tasks, Task(v, j)), taskOf |-> Put(T.taskOf, v, Len(T.tasks) + 1)]

\* job j arrives on vertex v: it joins the task of the key, or starts one
subscribe(j, v, T) ==
    IF v \in DOMAIN T.taskOf
    THEN [T EXCEPT !.tasks[T.taskOf[v]].waiters = @ \cup {j},
                   !.tasks[T.taskOf[v]].joined = @ \cup {j}]
    ELSE [tasks |-> Append(T.tasks, Task(v, j)), taskOf |-> Put(T.taskOf, v, Len(T.tasks) + 1)]

\* job j subscribes to the vertices vs
RECURSIVE subscribeAll(_, _, _)
subscribeAll(j, vs, T) ==
    IF vs = {} THEN T
    ELSE LET v == CHOOSE x \in vs : \A y \in vs : x <= y
         IN  subscribeAll(j, vs \ {v}, subscribe(j, v, T))

\* a task cancelled as soon as one of its jobs is cancelled
unsubscribeFirst(task, j) ==
    IF j \notin task.waiters THEN task
    ELSE [task EXCEPT !.waiters = @ \ {j},
                      !.state = IF @ \notin Terminal THEN "cancelled" ELSE @]

\* a task cancelled when its last job leaves, whatever its state
unsubscribeAny(task, j) ==
    IF j \notin task.waiters THEN task
    ELSE [task EXCEPT !.waiters = @ \ {j},
                      !.state = IF task.waiters = {j} THEN "cancelled" ELSE @]

\* job j is cancelled: the waiter count of the task goes down, and at zero the task
\* cancels its worker call and becomes cancelled
unsubscribe(task, j) ==
    IF j \notin task.waiters THEN task
    ELSE [task EXCEPT !.waiters = @ \ {j},
                      !.state = IF task.waiters = {j} /\ @ \notin Terminal
                                THEN "cancelled" ELSE @]

\* a task keeping the last error raised on it
raiseLast(task, e) ==
    IF task.err = Nil THEN [task EXCEPT !.state = "failed", !.err = e]
    ELSE [task EXCEPT !.err = e, !.logged = @ + 1]

\* error e is raised on a task: the first error fails the task and is kept, a later one
\* is logged and suppressed
raise(task, e) ==
    IF task.err = Nil THEN [task EXCEPT !.state = "failed", !.err = e]
    ELSE [task EXCEPT !.logged = @ + 1]

\* all predecessors have fast keys only
readyWhenKeyed(t) ==
    \A p \in preds[tasks[t].v] :
        p \in DOMAIN taskOf /\ tasks[taskOf[p]].state \notin {"requested", "failed", "cancelled"}

\* all predecessors of the vertex of task t are finalized
ready(t) ==
    \A p \in preds[tasks[t].v] :
        p \in DOMAIN taskOf /\ tasks[taskOf[p]].state = "finalized"

\* all predecessors of the vertex of task t have fast keys
keyed(t) ==
    \A p \in preds[tasks[t].v] :
        p \in DOMAIN taskOf /\ tasks[taskOf[p]].state \notin {"requested", "failed", "cancelled"}

(***************************************************************************)
(* The specification of the solver: jobs are submitted and cancelled while *)
(* the tasks walk through the per-vertex state machine.                    *)
(***************************************************************************)
InitSolver ==
    /\ graph = <<>> /\ items = <<>> /\ added = EmptyFn /\ links = EmptyFn /\ byKey = EmptyFn
    /\ next = 0 /\ ms = NewMarshalState /\ cc = None
    /\ pc = "none" /\ last = NoCall /\ loops = NoLoops /\ prev = NoPrev
    /\ rem = NoRem
    /\ preds \in DAGs
    /\ target \in [Jobs -> Vertices]
    /\ jstate = [j \in Jobs |-> "new"]
    /\ tasks = <<>>
    /\ taskOf = EmptyFn
    /\ calls = [v \in Vertices |-> 0]
    /\ jerr = [j \in Jobs |-> Nil]
    /\ wk = NoWork
    /\ dm = NoDaemon

\* the number of worker calls in flight
Executing == Cardinality({t \in 1..Len(tasks) : tasks[t].state = "executing"})

\* job j is submitted: it subscribes to its vertex and to all the predecessors
Submit(j) ==
    /\ jstate[j] = "new"
    /\ LET vs == Closure(preds, {target[j]})
           T == subscribeAll(j, vs, [tasks |-> tasks, taskOf |-> taskOf])
       IN  /\ \A v \in vs \cap DOMAIN taskOf : tasks[taskOf[v]].state # "cancelled"
           /\ tasks' = T.tasks
           /\ taskOf' = T.taskOf
    /\ jstate' = [jstate EXCEPT ![j] = "running"]
    /\ UNCHANGED <<exportVars, rem, wk, dm, jerr, preds, target, calls>>

\* the fast key of the task misses the cache
FastKeyMiss(t) ==
    /\ tasks[t].state = "requested"
    /\ keyed(t)
    /\ tasks' = [tasks EXCEPT ![t].state = "keying"]
    /\ UNCHANGED <<exportVars, rem, wk, dm, jerr, preds, target, jstate, taskOf, calls>>

\* the fast key of the task hits the cache: the cached result is reused
FastKeyHit(t) ==
    /\ tasks[t].state = "requested"
    /\ ready(t)
    /\ tasks' = [tasks EXCEPT ![t].state = "reused"]
    /\ UNCHANGED <<exportVars, rem, wk, dm, jerr, preds, target, jstate, taskOf, calls>>

\* the worker is invoked with the results of the predecessors
Execute(t) ==
    /\ tasks[t].state = "keying"
    /\ ready(t)
    /\ Executing < WorkerCap
    /\ tasks' = [tasks EXCEPT ![t].state = "executing"]
    /\ calls' = [calls EXCEPT ![tasks[t].v] = @ + 1]
    /\ UNCHANGED <<exportVars, rem, wk, dm, jerr, preds, target, jstate, taskOf>>

\* the worker call returns and the operation declares slow keying
WorkerSlowKey(t) ==
    /\ tasks[t].state = "executing"
    /\ tasks' = [tasks EXCEPT ![t].state = "content-keying"]
    /\ UNCHANGED <<exportVars, rem, wk, dm, jerr, preds, target, jstate, taskOf, calls>>

\* the worker call returns, or the cache is backfilled, with a result to reuse
WorkerReuse(t) ==
    /\ tasks[t].state = "executing"
    /\ tasks' = [tasks EXCEPT ![t].state = "reused"]
    /\ UNCHANGED <<exportVars, rem, wk, dm, jerr, preds, target, jstate, taskOf, calls>>

\* the worker call fails
WorkerFail(t) ==
    /\ tasks[t].state = "executing"
    /\ \E e \in Errors : tasks' = [tasks EXCEPT ![t] = raise(@, e)]
    /\ UNCHANGED <<exportVars, rem, wk, dm, jerr, preds, target, jstate, taskOf, calls>>

\* one more error is raised on a task that has failed
LaterError(t) ==
    /\ tasks[t].state = "failed"
    /\ tasks[t].logged < MaxLogged
    /\ \E e \in Errors : tasks' = [tasks EXCEPT ![t] = raise(@, e)]
    /\ UNCHANGED <<exportVars, rem, wk, dm, jerr, preds, target, jstate, taskOf, calls>>

\* the slow-key pass ends
SlowKeyPass(t) ==
    /\ tasks[t].state = "content-keying"
    /\ tasks' = [tasks EXCEPT ![t].state = "finalized"]
    /\ UNCHANGED <<exportVars, rem, wk, dm, jerr, preds, target, jstate, taskOf, calls>>

\* the reused result is stored and the references are handed out
Finalize(t) ==
    /\ tasks[t].state = "reused"
    /\ tasks' = [tasks EXCEPT ![t].state = "finalized"]
    /\ UNCHANGED <<exportVars, rem, wk, dm, jerr, preds, target, jstate, taskOf, calls>>

\* job j is cancelled: it leaves every task it subscribes to
Cancel(j) ==
    /\ jstate[j] = "running"
    /\ jstate' = [jstate EXCEPT ![j] = "cancelled"]
    /\ tasks' = [t \in 1..Len(tasks) |-> unsubscribe(tasks[t], j)]
    /\ UNCHANGED <<exportVars, rem, wk, dm, jerr, preds, target, taskOf, calls>>

\* job j receives the result of its vertex
JobDone(j) ==
    /\ jstate[j] = "running"
    /\ tasks[taskOf[target[j]]].state = "finalized"
    /\ jstate' = [jstate EXCEPT ![j] = "done"]
    /\ UNCHANGED <<exportVars, rem, wk, dm, jerr, preds, target, tasks, taskOf, calls>>

\* the failure of a task surfaces to a job joined on it
JobFail(j) ==
    /\ jstate[j] = "running"
    /\ \E t \in 1..Len(tasks) :
          /\ j \in tasks[t].waiters
          /\ tasks[t].state = "failed"
          /\ jerr' = [jerr EXCEPT ![j] = tasks[t].err]
    /\ jstate' = [jstate EXCEPT ![j] = "failed"]
    /\ UNCHANGED <<exportVars, rem, wk, dm, preds, target, tasks, taskOf, calls>>

NextSolver ==
    \/ \E j \in Jobs : Submit(j)
    \/ \E t \in 1..Len(tasks) : FastKeyMiss(t)
    \/ \E t \in 1..Len(tasks) : FastKeyHit(t)
    \/ \E t \in 1..Len(tasks) : Execute(t)
    \/ \E t \in 1..Len(tasks) : WorkerSlowKey(t)
    \/ \E t \in 1..Len(tasks) : WorkerReuse(t)
    \/ \E t \in 1..Len(tasks) : WorkerFail(t)
    \/ \E t \in 1..Len(tasks) : LaterError(t)
    \/ \E t \in 1..Len(tasks) : SlowKeyPass(t)
    \/ \E t \in 1..Len(tasks) : Finalize(t)
    \/ \E j \in Jobs : Cancel(j)
    \/ \E j \in Jobs : JobDone(j)
    \/ \E j \in Jobs : JobFail(j)

SpecSolver == InitSolver /\ [][NextSolver]_vars

(***************************************************************************)
(* C17: work sharing.  When two or more jobs request the same vertex (fast *)
(* key) while its task is in flight, the later job joins the task: there   *)
(* is never more than one task for a vertex, the task in the map is that   *)
(* task, the worker is never invoked more than once for the vertex, and a  *)
(* task that went through the worker has invoked it exactly once.          *)
(***************************************************************************)
C17_WorkSharing ==
    /\ \A t1, t2 \in 1..Len(tasks) : tasks[t1].v = tasks[t2].v => t1 = t2
    /\ \A t \in 1..Len(tasks) : tasks[t].v \in DOMAIN taskOf /\ taskOf[tasks[t].v] = t
    /\ \A v \in Vertices : calls[v] <= 1
    /\ \A t \in 1..Len(tasks) :
           tasks[t].state \in {"executing", "content-keying"} => calls[tasks[t].v] = 1

\* two running jobs share the task of a vertex whose worker call is in flight
C17_Witness ==
    \E t \in 1..Len(tasks) :
        /\ tasks[t].waiters = Jobs
        /\ \A j \in Jobs : jstate[j] = "running"
        /\ tasks[t].state = "executing"
        /\ calls[tasks[t].v] = 1

(***************************************************************************)
(* The engine keeps scheduling: while a task or a job can take a step, a   *)
(* step is taken.  Submission and cancellation are up to the clients.      *)
(***************************************************************************)
Progress ==
    \/ \E t \in 1..Len(tasks) :
           \/ FastKeyMiss(t) \/ FastKeyHit(t) \/ Execute(t) \/ WorkerSlowKey(t)
           \/ WorkerReuse(t) \/ WorkerFail(t) \/ SlowKeyPass(t) \/ Finalize(t)
    \/ \E j \in Jobs : JobDone(j) \/ JobFail(j)

SpecSolverLive == SpecSolver /\ WF_vars(Progress)

(***************************************************************************)
(* C18: joined cancellation.  A task is cancelled only when all the jobs   *)
(* joined on it have been cancelled; a step after which the task still has *)
(* a waiter, such as the cancellation of one of two jobs sharing a running *)
(* vertex, does not change the state of the task, so the worker call goes  *)
(* on; the step that takes the last waiter from a task that is not         *)
(* terminal moves it to cancelled; and a running job always comes to an    *)
(* end, with the result, with the error of a failed task, or cancelled     *)
(* itself.                                                                 *)
(***************************************************************************)
C18_JoinedCancellation ==
    /\ [](\A t \in 1..Len(tasks) :
              tasks[t].state = "cancelled" =>
                  /\ tasks[t].waiters = {}
                  /\ \A j \in tasks[t].joined : jstate[j] = "cancelled")
    /\ [][\A t \in 1..Len(tasks) :
              (tasks'[t].waiters # tasks[t].waiters /\ tasks'[t].waiters # {}) =>
                  tasks'[t].state = tasks[t].state]_vars
    /\ [][\A t \in 1..Len(tasks) :
              (tasks[t].waiters # {} /\ tasks'[t].waiters = {}
                   /\ tasks[t].state \notin Terminal) =>
                  tasks'[t].state = "cancelled"]_vars
    /\ \A j \in Jobs : (jstate[j] = "running") ~> (jstate[j] # "running")

\* one of the two jobs that shared the worker call of a vertex was cancelled and the
\* other one has received the result
C18_Witness ==
    \E t \in 1..Len(tasks) : \E j1, j2 \in Jobs :
        /\ tasks[t].joined = {j1, j2} /\ j1 # j2
        /\ target[j2] = tasks[t].v
        /\ jstate[j1] = "cancelled" /\ jstate[j2] = "done"
        /\ tasks[t].waiters = {j2}
        /\ tasks[t].state = "finalized"
        /\ calls[tasks[t].v] = 1

PredsFinalized(s, t) ==
    \A p \in preds[s[t].v] : \E q \in 1..Len(s) : s[q].v = p /\ s[q].state = "finalized"

C22_ErrorPropagation ==
    /\ [](\A j \in Jobs :
              /\ jstate[j] = "failed" =>
                    \E t \in 1..Len(tasks) :
                        /\ j \in tasks[t].joined
                        /\ tasks[t].state = "failed"
                        /\ jerr[j] = tasks[t].err
                        /\ tasks[t].v \in Closure(preds, {target[j]})
              /\ jstate[j] # "failed" => jerr[j] = Nil)
    /\ [][\A t \in 1..Len(tasks) :
              tasks[t].err # Nil => tasks'[t].err = tasks[t].err]_vars
    /\ \A j \in Jobs :
          (jstate[j] = "running"
               /\ \E t \in 1..Len(tasks) : j \in tasks[t].waiters /\ tasks[t].state = "failed")
              ~> (jstate[j] \in {"failed", "cancelled"})

\* both jobs joined on a task got its first error, and a later error on the task was suppressed
C22_Witness ==
    \E t \in 1..Len(tasks) :
        /\ tasks[t].joined = Jobs
        /\ tasks[t].state = "failed"
        /\ tasks[t].logged > 0
        /\ \A j \in Jobs : jstate[j] = "failed" /\ jerr[j] = tasks[t].err
        /\ \A u \in 1..Len(tasks) : u # t => tasks[u].state # "failed"

(***************************************************************************)
(* Result handles of the worker.  The worker keeps a ref-count per result  *)
(* handle; a build that imports a cache loads every record whose layers    *)
(* the worker still has as a candidate result, an item adopts one of the   *)
(* candidates, and the solver releases what the build holds when the build *)
(* completes.  Prune removes the handles nothing holds.                    *)
(***************************************************************************)
NBuilds == 2
NHandles == 2
NRecords == 2

Builds == 1..NBuilds
Handles == 1..NHandles
Records == 1..NRecords

\* the references of a set of holders to one handle
RefsTo(w, h, held) == {x \in held : w.points[x.rec] = h}

\* a release that drops the candidates a build did not use without telling the worker
releaseAdopted(w, b) ==
    [w EXCEPT !.refs = {x \in @ : x.build # b},
              !.count = [h \in Handles |->
                            @[h] - Cardinality(RefsTo(w, h, {x \in w.refs : x.build = b /\ x.kind = "item"}))],
              !.stage[b] = "done",
              !.op = "release"]

releaseAll(w, b) ==
    [w EXCEPT !.refs = {x \in @ : x.build # b},
              !.count = [h \in Handles |->
                            @[h] - Cardinality(RefsTo(w, h, {x \in w.refs : x.build = b}))],
              !.stage[b] = "done",
              !.op = "release"]

InitRefs ==
    /\ graph = <<>> /\ items = <<>> /\ added = EmptyFn /\ links = EmptyFn /\ byKey = EmptyFn
    /\ next = 0 /\ ms = NewMarshalState /\ cc = None
    /\ pc = "none" /\ last = NoCall /\ loops = NoLoops /\ prev = NoPrev
    /\ rem = NoRem
    /\ IdleSolver
    /\ dm = NoDaemon
    /\ \E pts \in [Records -> Handles] :
          wk = [pc |-> "refs",
                points |-> pts,
                store |-> Handles,
                count |-> [h \in Handles |-> 0],
                refs |-> {},
                stage |-> [b \in Builds |-> "new"],
                loaded |-> [b \in Builds |-> {}],
                adopted |-> [b \in Builds |-> Nil],
                op |-> "none"]

\* the build imports the cache: every record the worker still has the layers of is a candidate
Import(b) ==
    /\ wk.pc = "refs"
    /\ wk.stage[b] = "new"
    /\ LET found == {r \in Records : wk.points[r] \in wk.store}
           cands == {[build |-> b, rec |-> r, kind |-> "candidate"] : r \in found}
       IN wk' = [wk EXCEPT !.refs = @ \cup cands,
                           !.count = [h \in Handles |-> @[h] + Cardinality(RefsTo(wk, h, cands))],
                           !.loaded[b] = found,
                           !.stage[b] = "loaded",
                           !.op = "import"]
    /\ UNCHANGED <<exportVars, rem, solverVars, dm>>

\* an item of the build adopts one candidate result and bumps the ref-count
Adopt(b, r) ==
    /\ wk.pc = "refs"
    /\ wk.stage[b] = "loaded"
    /\ r \in wk.loaded[b]
    /\ wk' = [wk EXCEPT !.refs = @ \cup {[build |-> b, rec |-> r, kind |-> "item"]},
                        !.count[wk.points[r]] = @ + 1,
                        !.adopted[b] = r,
                        !.stage[b] = "used",
                        !.op = "adopt"]
    /\ UNCHANGED <<exportVars, rem, solverVars, dm>>

\* the build completes and the solver releases what it holds
Complete(b) ==
    /\ wk.pc = "refs"
    /\ wk.stage[b] \in {"loaded", "used"}
    /\ wk' = releaseAll(wk, b)
    /\ UNCHANGED <<exportVars, rem, solverVars, dm>>

\* prune: the worker removes every handle that is not in use
Prune ==
    /\ wk.pc = "refs"
    /\ wk' = [wk EXCEPT !.store = {h \in @ : wk.count[h] > 0}, !.op = "prune"]
    /\ UNCHANGED <<exportVars, rem, solverVars, dm>>

NextRefs ==
    \/ \E b \in Builds : Import(b)
    \/ \E b \in Builds, r \in Records : Adopt(b, r)
    \/ \E b \in Builds : Complete(b)
    \/ Prune

SpecRefs == InitRefs /\ [][NextRefs]_vars

(***************************************************************************)
(* C21: ref safety.  The worker's ref-count of a result handle is 0        *)
(* exactly when no item and no build references the handle, and it is the  *)
(* number of references held; a handle that is referenced is still in the  *)
(* worker's store; and a prune that runs while no build is in progress     *)
(* leaves nothing in use, also after a build that loaded several records   *)
(* of the same layers and used one of them.                                *)
(***************************************************************************)
C21_RefSafety ==
    wk.pc = "refs" =>
        /\ \A h \in Handles :
              /\ wk.count[h] = 0 <=> RefsTo(wk, h, wk.refs) = {}
              /\ wk.count[h] = Cardinality(RefsTo(wk, h, wk.refs))
              /\ wk.count[h] > 0 => h \in wk.store
        /\ (wk.op = "prune" /\ \A b \in Builds : wk.stage[b] \in {"new", "done"}) => wk.store = {}

\* a build loaded two records of the same layers, used one, completed, and the prune left nothing
C21_Witness ==
    /\ wk.pc = "refs"
    /\ wk.op = "prune"
    /\ wk.store = {}
    /\ \E b \in Builds :
          /\ wk.stage[b] = "done"
          /\ wk.adopted[b] # Nil
          /\ \E r1, r2 \in wk.loaded[b] : r1 # r2 /\ wk.points[r1] = wk.points[r2]

(***************************************************************************)
(* Claims about loop removal (Spec).                                       *)
(***************************************************************************)
\* the canonical items that hold a key of state.links[it], under any nlink
Forward(lnk, bk, it) ==
    IF it \notin DOMAIN lnk THEN {}
    ELSE {bk[id] : id \in (UNION Range(lnk[it])) \cap DOMAIN bk}

RECURSIVE ForwardReach(_, _, _, _)
ForwardReach(lnk, bk, from, seen) ==
    LET nxt == (UNION {Forward(lnk, bk, i) : i \in from}) \ seen
    IN  IF nxt = {} THEN seen ELSE ForwardReach(lnk, bk, nxt, seen \cup nxt)

\* C31: after removeLoops has returned, the links between the canonical items form no
\* cycle, neither the links the items hold to their sources nor the keys kept in
\* state.links, whatever the order in which the roots and the links were ranged over.
C31_NoCycleAfterRemoveLoops ==
    loops.done =>
        /\ ~Cyclic(items, Range(byKey))
        /\ \A it \in Range(byKey) : it \notin ForwardReach(links, byKey, {it}, {})

\* removeLoops has returned on canonical items that were linked in a cycle
C31_Witness ==
    /\ loops.done
    /\ loops.cyclic
    /\ loops.dropped # {}
    /\ ~Cyclic(items, Range(byKey))

\* C32: loop removal drops links, never items.  The step of removeLoops leaves
\* state.byKey, state.added and state.next as they were, keeps every item with its
\* digest, its result and the number of its inputs, keeps every nlink of state.links,
\* and only takes entries out of the links of the items and out of the id sets.
C32_LoopRemovalDropsOnlyLinks ==
    [][(pc = "normalize" /\ pc' = "marshal") =>
          /\ byKey' = byKey
          /\ added' = added
          /\ next' = next
          /\ Len(items') = Len(items)
          /\ \A it \in 1..Len(items) :
                /\ items'[it].dgst = items[it].dgst
                /\ items'[it].result = items[it].result
                /\ Len(items'[it].links) = Len(items[it].links)
                /\ \A i \in 1..Len(items[it].links) : items'[it].links[i] \subseteq items[it].links[i]
          /\ DOMAIN links' = DOMAIN links
          /\ \A it \in DOMAIN links :
                /\ DOMAIN links'[it] = DOMAIN links[it]
                /\ \A nl \in DOMAIN links[it] : links'[it][nl] \subseteq links[it][nl]]_vars

\* removeLoops took the last link out of an input of an item that is still canonical
C32_Witness ==
    /\ loops.done
    /\ \E e \in loops.dropped :
          /\ e.from \in Range(byKey)
          /\ e.to \in Range(byKey)
          /\ \E i \in 1..Len(items[e.from].links) : items[e.from].links[i] = {}

(***************************************************************************)
(* Claims about isSubRemote (SpecRemote).                                  *)
(***************************************************************************)
\* the digests of chain a are the first digests of chain b, position by position
IsPrefix(a, b) ==
    /\ Len(a) <= Len(b)
    /\ Digests(a) = SubSeq(Digests(b), 1, Len(a))

\* C33: isSubRemote(sub, main) is true exactly when the descriptor digests of sub are a
\* prefix of those of main.  It is reflexive, transitive, true for an empty sub, and it
\* is false when the digests of sub all occur in main but not at the same positions.
C33_IsSubRemoteIsPrefix ==
    rem.pc = "checked" =>
        /\ rem.sub <=> IsPrefix(rem.lower, rem.upper)
        /\ rem.lower = rem.upper => rem.sub
        /\ rem.lower = <<>> => rem.sub
        /\ (Range(Digests(rem.lower)) \subseteq Range(Digests(rem.upper))
               /\ \E i \in 1..Len(rem.lower) :
                     i > Len(rem.upper) \/ rem.lower[i].Digest # rem.upper[i].Digest)
              => ~rem.sub
        /\ rem.sub => \A c \in Remotes : isSubRemote(c, rem.lower) => isSubRemote(c, rem.upper)

\* a chain no longer than the other, with all its digests in it, that is no prefix
C33_Witness ==
    /\ rem.pc = "checked"
    /\ ~rem.sub
    /\ rem.lower # <<>>
    /\ Len(rem.lower) <= Len(rem.upper)
    /\ Range(Digests(rem.lower)) \subseteq Range(Digests(rem.upper))

(***************************************************************************)
(* Claims about the marshalState before the sort (SpecExport).             *)
(***************************************************************************)
\* the result of the item has descriptors and its Provider fails on one of them
ProviderFails(it) ==
    /\ Len(items[it].result.descs) > 0
    /\ \E i \in 1..Len(items[it].result.descs) : items[it].result.descs[i] \in items[it].result.bad

\* the items a step of marshalItem has appended the records of
Marshalled == DOMAIN ms.recordsByItem

\* C34: when the Provider of a result fails on one of its descriptors, marshalItem still
\* appends the record of the item, without Results, and returns no error; and a call
\* that marshals only such items (or items without result) leaves the layers,
\* chainsByID and the descriptors of the marshalState as they were.
C34_ProviderErrorDropsResult ==
    [][(pc = "marshal" /\ last'.op = "marshalItem") =>
          /\ ProviderFails(last'.it) => (last'.err = "none" /\ last'.it \in Marshalled')
          /\ \A it \in Marshalled' \ Marshalled :
                ProviderFails(it) =>
                    /\ ms'.records[ms'.recordsByItem[it] + 1].Digest = items[it].dgst
                    /\ ms'.records[ms'.recordsByItem[it] + 1].Results = <<>>
          /\ (\A it \in Marshalled' \ Marshalled :
                  ProviderFails(it) \/ items[it].result.descs = <<>>)
                => /\ ms'.layers = ms.layers
                   /\ ms'.chainsByID = ms.chainsByID
                   /\ ms'.descriptors = ms.descriptors]_vars

\* marshalItem returned for an item whose Provider fails on a blob of its chain, after
\* the layers of its source were marshalled
C34_Witness ==
    /\ last.op = "marshalItem"
    /\ last.err = "none"
    /\ ProviderFails(last.it)
    /\ ms.records[ms.recordsByItem[last.it] + 1].Results = <<>>
    /\ Len(ms.layers) = Len(items[1].result.descs)
    /\ Len(ms.layers) > 0

\* the chain id of the layer at index p (0-based, or -1): its blob, then the blobs of
\* its ancestors along ParentIndex
RECURSIVE ChainId(_, _)
ChainId(L, p) ==
    IF p = -1 THEN <<>> ELSE <<L[p + 1].Blob>> \o ChainId(L, L[p + 1].ParentIndex)

\* the first k descriptors of a chain, last first
PrefixId(descs, k) == [i \in 1..k |-> descs[k + 1 - i]]

\* C35: in the marshalState no two layers have the same Blob and the same ParentIndex;
\* chainsByID maps every chain id to the index of the one layer whose blob and ancestors
\* spell the id, and every layer is the layer of one id; and for every chain that was
\* marshalled, every non-empty prefix has a layer whose ancestors are the blobs of the
\* prefix in order.
C35_LayersMatchChains ==
    /\ \A i, j \in 1..Len(ms.layers) :
          (ms.layers[i].Blob = ms.layers[j].Blob
              /\ ms.layers[i].ParentIndex = ms.layers[j].ParentIndex) => i = j
    /\ \A id \in DOMAIN ms.chainsByID :
          /\ ms.chainsByID[id] \in 0..(Len(ms.layers) - 1)
          /\ ChainId(ms.layers, ms.chainsByID[id]) = id
    /\ \A p \in 0..(Len(ms.layers) - 1) :
          /\ ChainId(ms.layers, p) \in DOMAIN ms.chainsByID
          /\ ms.chainsByID[ChainId(ms.layers, p)] = p
    /\ \A it \in Marshalled :
          ~ProviderFails(it) =>
              \A k \in 1..Len(items[it].result.descs) :
                  \E p \in 0..(Len(ms.layers) - 1) :
                      ChainId(ms.layers, p) = PrefixId(items[it].result.descs, k)

\* two chains of two blobs were marshalled, the second the first in reverse: a blob
\* has two layers with different parents
C35_Witness ==
    /\ \E a, b \in Marshalled :
          /\ Len(items[a].result.descs) = 2
          /\ items[b].result.descs = PrefixId(items[a].result.descs, 2)
          /\ ~ProviderFails(a) /\ ~ProviderFails(b)
    /\ \E i, j \in 1..Len(ms.layers) :
          /\ ms.layers[i].Blob = ms.layers[j].Blob
          /\ ms.layers[i].ParentIndex # ms.layers[j].ParentIndex

\* C36: before the sort the marshalState holds no forward reference: every LinkIndex of
\* a record is smaller than the index of the record, every LayerIndex is an index of
\* state.layers, recordsByItem gives every marshalled item the index of its own record,
\* and the record of an item comes after the records of all the sources of its links.
C36_NoForwardReferenceBeforeSort ==
    /\ \A r \in 1..Len(ms.records) :
          /\ \A i \in 1..Len(ms.records[r].Inputs) :
                \A k \in 1..Len(ms.records[r].Inputs[i]) :
                    ms.records[r].Inputs[i][k].LinkIndex \in 0..(r - 2)
          /\ \A k \in 1..Len(ms.records[r].Results) :
                ms.records[r].Results[k].LayerIndex \in 0..(Len(ms.layers) - 1)
    /\ \A it \in Marshalled :
          /\ ms.recordsByItem[it] \in 0..(Len(ms.records) - 1)
          /\ ms.records[ms.recordsByItem[it] + 1].Digest = items[it].dgst
          /\ \A l \in UNION Range(items[it].links) :
                /\ l.src \in Marshalled
                /\ ms.recordsByItem[l.src] < ms.recordsByItem[it]

\* one call of marshalItem has appended the records of the two sources of an item and
\* then the record of the item, with links to both
C36_Witness ==
    /\ pc = "marshal"
    /\ last.op = "marshalItem"
    /\ Len(ms.records) >= 3
    /\ ms.recordsByItem[last.it] = Len(ms.records) - 1
    /\ \E i \in 1..Len(ms.records[Len(ms.records)].Inputs) :
          {ms.records[Len(ms.records)].Inputs[i][k].LinkIndex :
              k \in 1..Len(ms.records[Len(ms.records)].Inputs[i])} = {0, 1}

(***************************************************************************)
(* cmd/buildkitd/main.go:332-412  the start and the stop of the daemon.    *)
(* Several buildkitd processes are started on one root directory.  The     *)
(* lock is a flock on the file root/buildkitd.lock: TryLock opens the file *)
(* at the path, creating it when there is none, and asks for the exclusive *)
(* lock of the file it opened without waiting; Unlock releases the lock    *)
(* and closes the file; os.RemoveAll takes the path away, whatever file is *)
(* there.  dm.path is the file at the path (Nil: none), dm.holder the      *)
(* process that holds the lock of each file, dm.proc the processes: their  *)
(* place in the Action, the file they opened, whether listeners and        *)
(* controller were created in this run, and the error returned.            *)
(***************************************************************************)
NDaemons == 2

Daemons == 1..NDaemons

\* as many files as can be open or named at once
Inodes == 1..(NDaemons + 1)

NewProc == [pc |-> "start", fh |-> Nil, listeners |-> FALSE, controller |-> FALSE, err |-> "none"]

\* a file that no path names and no process has open
FreeInode ==
    CHOOSE i \in Inodes :
        /\ i # dm.path
        /\ \A d \in Daemons : dm.proc[d].fh # i
        /\ \A j \in Inodes : (j # dm.path /\ \A d \in Daemons : dm.proc[d].fh # j) => i <= j

InitDaemon ==
    /\ graph = <<>> /\ items = <<>> /\ added = EmptyFn /\ links = EmptyFn /\ byKey = EmptyFn
    /\ next = 0 /\ ms = NewMarshalState /\ cc = None
    /\ pc = "none" /\ last = NoCall /\ loops = NoLoops /\ prev = NoPrev
    /\ rem = NoRem
    /\ IdleSolver
    /\ wk = NoWork
    /\ dm = [pc |-> "daemon",
             path |-> Nil,
             holder |-> [i \in Inodes |-> Nil],
             proc |-> [d \in Daemons |-> NewProc]]

\* main.go:332-334  lock.TryLock, first half: the file at lockPath is opened or created
OpenLock(d) ==
    /\ dm.pc = "daemon"
    /\ dm.proc[d].pc = "start"
    /\ LET f == IF dm.path = Nil THEN FreeInode ELSE dm.path
       IN  dm' = [dm EXCEPT !.path = f, !.proc[d].fh = f, !.proc[d].pc = "opened"]
    /\ UNCHANGED <<exportVars, rem, solverVars, wk>>

\* main.go:334-340  lock.TryLock, second half: the flock of the opened file is taken
\* unless another process holds it; the Action returns an error when it is held
TryLock(d) ==
    /\ dm.pc = "daemon"
    /\ dm.proc[d].pc = "opened"
    /\ IF dm.holder[dm.proc[d].fh] = Nil
       THEN dm' = [dm EXCEPT !.holder[dm.proc[d].fh] = d, !.proc[d].pc = "locked"]
       ELSE dm' = [dm EXCEPT !.proc[d].fh = Nil, !.proc[d].pc = "exited",
                             !.proc[d].err = "could not lock"]
    /\ UNCHANGED <<exportVars, rem, solverVars, wk>>

\* main.go:348-351  newGRPCListeners; on error the Action returns and the deferred
\* unlock runs
NewGRPCListeners(d) ==
    /\ dm.pc = "daemon"
    /\ dm.proc[d].pc = "locked"
    /\ \E ok \in BOOLEAN :
          dm' = IF ok
                THEN [dm EXCEPT !.proc[d].listeners = TRUE, !.proc[d].pc = "listening"]
                ELSE [dm EXCEPT !.proc[d].err = "listeners", !.proc[d].pc = "unlocking"]
    /\ UNCHANGED <<exportVars, rem, solverVars, wk>>

\* main.go:362-365  newController; on error the Action returns
NewController(d) ==
    /\ dm.pc = "daemon"
    /\ dm.proc[d].pc = "listening"
    /\ \E ok \in BOOLEAN :
          dm' = IF ok
                THEN [dm EXCEPT !.proc[d].controller = TRUE, !.proc[d].pc = "registered"]
                ELSE [dm EXCEPT !.proc[d].err = "controller", !.proc[d].pc = "unlocking"]
    /\ UNCHANGED <<exportVars, rem, solverVars, wk>>

\* main.go:368-395  the services are registered and serveGRPC starts serving; an invalid
\* entitlement or an error of serveGRPC makes the Action return
ServeGRPC(d) ==
    /\ dm.pc = "daemon"
    /\ dm.proc[d].pc = "registered"
    /\ \E ok \in BOOLEAN :
          dm' = IF ok
                THEN [dm EXCEPT !.proc[d].pc = "serving"]
                ELSE [dm EXCEPT !.proc[d].err = "serve", !.proc[d].pc = "closing"]
    /\ UNCHANGED <<exportVars, rem, solverVars, wk>>

\* main.go:397-410  a server error or the end of the context: server.GracefulStop
GracefulStop(d) ==
    /\ dm.pc = "daemon"
    /\ dm.proc[d].pc = "serving"
    /\ dm' = [dm EXCEPT !.proc[d].pc = "closing"]
    /\ UNCHANGED <<exportVars, rem, solverVars, wk>>

\* main.go:366  defer controller.Close()
ControllerClose(d) ==
    /\ dm.pc = "daemon"
    /\ dm.proc[d].pc = "closing"
    /\ dm' = [dm EXCEPT !.proc[d].pc = "unlocking"]
    /\ UNCHANGED <<exportVars, rem, solverVars, wk>>

\* main.go:341-342  the deferred lock.Unlock(): the flock is released, the file closed
Unlock(d) ==
    /\ dm.pc = "daemon"
    /\ dm.proc[d].pc = "unlocking"
    /\ dm' = [dm EXCEPT !.holder[dm.proc[d].fh] = Nil, !.proc[d].fh = Nil,
                        !.proc[d].pc = "removing"]
    /\ UNCHANGED <<exportVars, rem, solverVars, wk>>

\* main.go:343  the deferred os.RemoveAll(lockPath), then the process ends
RemoveAll(d) ==
    /\ dm.pc = "daemon"
    /\ dm.proc[d].pc = "removing"
    /\ dm' = [dm EXCEPT !.path = Nil, !.proc[d].pc = "exited"]
    /\ UNCHANGED <<exportVars, rem, solverVars, wk>>

\* buildkitd is started again on the same root
Launch(d) ==
    /\ dm.pc = "daemon"
    /\ dm.proc[d].pc = "exited"
    /\ dm' = [dm EXCEPT !.proc[d] = NewProc]
    /\ UNCHANGED <<exportVars, rem, solverVars, wk>>

NextDaemon ==
    \E d \in Daemons :
        \/ OpenLock(d)
        \/ TryLock(d)
        \/ NewGRPCListeners(d)
        \/ NewController(d)
        \/ ServeGRPC(d)
        \/ GracefulStop(d)
        \/ ControllerClose(d)
        \/ Unlock(d)
        \/ RemoveAll(d)
        \/ Launch(d)

SpecDaemon == InitDaemon /\ [][NextDaemon]_vars

\* the place of a process is past the successful TryLock and before the deferred Unlock
HoldsLock(d) ==
    dm.proc[d].pc \in {"locked", "listening", "registered", "serving", "closing", "unlocking"}

\* the start-up order of one process: listeners only under the lock, the controller only
\* after the listeners, serving only with the controller, and nothing created when the
\* lock was refused
StartupOrder ==
    \A d \in Daemons :
        /\ dm.proc[d].listeners => (HoldsLock(d) \/ dm.proc[d].pc \in {"removing", "exited"})
        /\ HoldsLock(d) => (dm.proc[d].fh # Nil /\ dm.holder[dm.proc[d].fh] = d)
        /\ dm.proc[d].controller => dm.proc[d].listeners
        /\ dm.proc[d].pc = "serving" => dm.proc[d].controller
        /\ dm.proc[d].err = "could not lock" =>
              (dm.proc[d].pc = "exited" /\ ~dm.proc[d].listeners /\ ~dm.proc[d].controller)

\* C37: the lock is acquired before any listener is created, the listeners before the
\* controller, serving starts only after the controller exists, a process that finds
\* the lock held returns an error without listeners or controller, and at most one
\* process per root directory serves.
C37_StartupOrderAndOneServer ==
    dm.pc = "daemon" =>
        /\ StartupOrder
        /\ Cardinality({d \in Daemons : dm.proc[d].pc = "serving"}) <= 1

(***************************************************************************)
(* Claims about the value normalizeItem returns (Spec).                    *)
(***************************************************************************)
\* a call of normalizeItem on an item that is in state.added leaves the normalizeState
\* and the items as they were
RepeatedCallChangesNothing ==
    [][(last'.op = "normalizeItem" /\ pc = "normalize" /\ last'.it \in DOMAIN added) =>
          /\ added' = added /\ links' = links /\ byKey' = byKey /\ next' = next
          /\ items' = items
          /\ last'.err = "none"
          /\ last'.ret = added[last'.it]]_vars

\* C38: for every item it normalizes without error, normalizeItem returns the canonical
\* item of the item, the value of state.added for it, on the first call as on every later
\* one; and a repeated call changes nothing in the normalizeState.
C38_ReturnsCanonicalItem ==
    /\ []((last.op = "normalizeItem" /\ last.err = "none") => last.ret = added[last.it])
    /\ RepeatedCallChangesNothing

====
